---- MODULE Spec2Model ----
(***************************************************************************)
(* Playback-synchronization engine of voice-message-summary.               *)
(*                                                                         *)
(* Two player components are modelled: the player of src/unnamed/part_002  *)
(* (variant "enhanced": promise-confirmed play, skip, keyboard, drag,      *)
(* previousVolumeRef) and the one of src/src/components/AudioPlayer.tsx    *)
(* (variant "basic").  The host media element is the adapter: audioTime,   *)
(* audioPaused, audioRate, audioVolume and the pending play() promises.    *)
(*                                                                         *)
(* The Index page (src/src/pages/Index.tsx) above them holds the stage of   *)
(* the processing pipeline, the results and the blob URL of the audio;     *)
(* ResultsDisplay mounts the player while a topic passes its filter.       *)
(*                                                                         *)
(* Units: time in steps of 5 seconds, volume in tenths (10 = 1.0),         *)
(* playback rate in hundredths (125 = 1.25x).  Indexes are 0-based as in   *)
(* the code.                                                               *)
(***************************************************************************)
EXTENDS Integers, Sequences, FiniteSets

VARIABLES
    variant,          \* which player component is mounted
    topics,           \* prop topics: sequence of [timestamp]
    words,            \* ResultsDisplay prop words: sequence of [start, end]
    onTimeUpdate,     \* optional prop: "none" or "handleAudioTimeUpdate"
    isPlaying, currentTime, duration, playbackRate, volume, isMuted,
    isLoading, error, isDragging,
    previousVolume,   \* previousVolumeRef.current
    activeTopicIndex, \* useMemo value (enhanced) / useState value (basic)
    kbDuration,       \* duration captured by the registered keydown handler
    audioTime, audioPaused, audioRate, audioVolume,   \* media element
    audioReady,       \* media element: "reloading", "empty", "ready" or "failed"
    pendingPlays,     \* play() promises not yet settled, oldest first
    currentAudioTime, \* ResultsDisplay state
    currentWordIndex, \* ResultsDisplay: getCurrentWordIndex()
    execAge,          \* throttle: Date.now() - lastExecTime, saturated above the delay
    timers,           \* setTimeout callbacks of throttle instances not yet run
    deliveryAge,      \* history: time since the last onTimeUpdate call
    lastDelivery,     \* history: what the last onTimeUpdate call delivered
    latestDelivered,  \* history: the newest tick given to the throttle was delivered
    lastOp,           \* history: the handler that ran last
    lastChosenVolume, \* history: last non-zero level given to handleVolumeChange
    stage,            \* Index state: "idle", "uploading", "transcribing", "summarizing"
    results,          \* Index state: null or [summary, transcription, audioUrl]
    audioFile,        \* Index state: null or the selected File
    liveUrls,         \* blob URLs created by URL.createObjectURL and not revoked
    transcriptionData, \* handleFileSelect: data of the transcribe-audio reply
    calls,            \* history: services invoked for the file being processed
    toast,            \* title of the last toast shown
    pageOpen,         \* the Index page is mounted
    listeners,        \* handlers registered on the media element and on window
    cleanups          \* per effect of the player: the run whose cleanup is pending

vars == <<variant, topics, words, onTimeUpdate, isPlaying, currentTime, duration,
          playbackRate, volume, isMuted, isLoading, error, isDragging,
          previousVolume, activeTopicIndex, kbDuration, audioTime,
          audioPaused, audioRate, audioVolume, audioReady, pendingPlays,
          currentAudioTime, currentWordIndex, execAge, timers, deliveryAge,
          lastDelivery, latestDelivered, lastOp, lastChosenVolume, stage,
          results, audioFile, liveUrls, transcriptionData, calls, toast,
          pageOpen, listeners, cleanups>>

playerState == <<isPlaying, currentTime, duration, playbackRate, volume,
                 isMuted, isLoading, error, isDragging, previousVolume,
                 activeTopicIndex, kbDuration>>
adapterState == <<audioTime, audioPaused, audioRate, audioVolume, audioReady,
                  pendingPlays>>
hostState == <<currentAudioTime, currentWordIndex>>
throttleState == <<execAge, timers, deliveryAge, lastDelivery, latestDelivered>>
propState == <<variant, topics, words, onTimeUpdate>>
pageState == <<stage, results, audioFile, liveUrls, transcriptionData, calls,
               toast, pageOpen>>
listenerState == <<listeners, cleanups>>

----------------------------------------------------------------------------
(* Bounds of the model *)
MaxStamp == 3         \* largest timestamp / start drawn for the index inputs
MaxTopics == 3        \* longest topic sequence drawn
MaxWords == 2         \* longest word sequence drawn
TrackWidth == 4       \* width of the progress track in pointer units
MaxPending == 2       \* most play() promises in flight
MaxTimers == 2        \* most throttle timeouts not yet run
MaxRuns == 2          \* effect runs told apart among the registered handlers
MaxUrls == 2          \* most blob URLs alive at once

(* Program constants *)
NULL_INDEX == -1      \* encodes null (activeTopicIndex) and -1 (findIndex)
SKIP_DURATION == 2    \* 10 seconds, in steps of 5 seconds
VOLUME_MAX == 10      \* Slider max={1}, in tenths
VOLUME_STEP == 1      \* adjustVolume(0.1), in tenths
VOLUME_FALLBACK == 5  \* basic toggleMute: volume || 0.5, in tenths
THROTTLE_DELAY == 2   \* throttle(..., 100): 100 ms, in steps of 50 ms
PLAYBACK_RATES == <<100, 125, 150, 175, 200, 250, 300>>
BasicRates == <<50, 75, 100, 125, 150, 200>>

SourceDuration == TrackWidth    \* audio.duration of the loaded source

Variants == {"enhanced", "basic"}

Max(a, b) == IF a >= b THEN a ELSE b
Min(a, b) == IF a <= b THEN a ELSE b

----------------------------------------------------------------------------
(* Array helpers of the host language *)

\* Array.prototype.findIndex: `hits` holds the 1-based positions whose element
\* satisfies the callback; the result is the first of them as a 0-based
\* index, else -1.
findIndex(hits) ==
    IF hits = {} THEN NULL_INDEX
    ELSE (CHOOSE i \in hits : \A j \in hits : i <= j) - 1

\* Array.prototype.indexOf on a sequence of numbers.
indexOf(arr, x) == findIndex({i \in 1..Len(arr) : arr[i] = x})

----------------------------------------------------------------------------
(* Topic index and word index *)

TopicMatchesLate(T, t, i) ==
    /\ t >= T[i].timestamp
    /\ (i = Len(T) \/ t <= T[i + 1].timestamp)

\* the findIndex callback of activeTopicIndex / handleTimeUpdate
TopicMatches(T, t, i) ==
    /\ t >= T[i].timestamp
    /\ (i = Len(T) \/ t < T[i + 1].timestamp)

\* activeTopicIndex: index >= 0 ? index : null
activeTopicIndexOf(T, t) ==
    LET index == findIndex({i \in 1..Len(T) : TopicMatches(T, t, i)})
    IN  IF index >= 0 THEN index ELSE NULL_INDEX

WordMatchesByEnd(W, t, i) ==
    /\ t >= W[i].start
    /\ (i = Len(W) \/ t < W[i].end)

\* the findIndex callback of getCurrentWordIndex
WordMatches(W, t, i) ==
    /\ t >= W[i].start
    /\ (i = Len(W) \/ t < W[i + 1].start)

getCurrentWordIndex(W, t) ==
    IF Len(W) = 0 THEN NULL_INDEX
    ELSE findIndex({i \in 1..Len(W) : WordMatches(W, t, i)})

----------------------------------------------------------------------------
(* Input domains *)

SortedStamps(n) ==
    {s \in [1..n -> 0..MaxStamp] : \A i \in 1..(n - 1) : s[i] <= s[i + 1]}

\* topic sequences sorted ascending by timestamp (ties allowed)
SortedTopicSeqs ==
    UNION {{[i \in 1..n |-> [timestamp |-> s[i]]] : s \in SortedStamps(n)} :
           n \in 0..MaxTopics}

\* word sequences sorted ascending by start, each with start <= end
SortedWordSeqs ==
    UNION {UNION {{[i \in 1..n |-> [start |-> s[i], end |-> s[i] + d[i]]] :
                   d \in [1..n -> 0..1]} : s \in SortedStamps(n)} :
           n \in 0..MaxWords}

ProbeTimes == (0 - 1)..(MaxStamp + 1)

----------------------------------------------------------------------------
(* Page values *)

\* useState<...| null>(null): null is the empty sequence, a value v is <<v>>
Null == <<>>
Some(v) == <<v>>

\* a property read through ?. of a missing object, or a missing property
Undefined == "undefined"

\* results.audioUrl is optional; 0 stands for its absence
NoUrl == 0

\* strings are sequences of tokens: String.prototype.includes with a
\* one-token needle, endsWith with a one-token suffix, toLowerCase per token
includes(str, needle) == \E i \in 1..Len(str) : str[i] = needle

endsWith(str, suffix) == Len(str) > 0 /\ str[Len(str)] = suffix

lowerToken(token) ==
    CASE token = ".MP3" -> ".mp3"
      [] token = "NOTE" -> "note"
      [] OTHER -> token

toLowerCase(str) == [i \in 1..Len(str) |-> lowerToken(str[i])]

\* validateFile: const maxSize, in bytes
maxSize == 10 * 1024 * 1024

validTypes ==
    {"audio/mpeg", "audio/mp3", "audio/mp4", "audio/m4a", "audio/ogg",
     "audio/wav", "audio/opus", "audio/webm"}

validExtensions == {".mp3", ".m4a", ".ogg", ".wav", ".opus"}

\* files offered to the drop zone: sizes around the limit, MIME types
\* (one with parameters, one that is no audio type, one empty) and names
\* (upper case, an allowed extension that is not the suffix, none allowed)
FileSizes == {0, maxSize - 1, maxSize, maxSize + 1}

FileTypes ==
    {<<"audio/mpeg">>, <<"audio/webm", ";codecs=opus">>, <<"video/mp4">>,
     <<>>}

FileNames ==
    {<<"note", ".mp3">>, <<"NOTE", ".MP3">>, <<"note", ".mp3", ".txt">>,
     <<"clip", ".webm">>}

Files == [size : FileSizes, type : FileTypes, name : FileNames]

\* the player is rendered by ResultsDisplay when
\* audioUrl && parsedTopics.length > 0
PlayerMountedIn(res, T) ==
    /\ res # Null
    /\ res[1].audioUrl # NoUrl
    /\ Len(T) > 0

PlayerMounted == PlayerMountedIn(results, topics)

----------------------------------------------------------------------------
(* Effects of the enhanced player: event subscriptions *)

NoRun == 0

Effects == {"media", "keydown", "drag"}

\* addEventListener calls of the three effects
Acquired ==
    [media |-> {"loadstart", "loadedmetadata", "loadeddata", "progress",
                "canplay", "timeupdate", "ended", "error", "playing"},
     keydown |-> {"keydown"},
     drag |-> {"mousemove", "mouseup", "touchmove", "touchend"}]

\* removeEventListener calls of their cleanup functions
Released ==
    [media |-> {"loadstart", "loadedmetadata", "loadeddata", "progress",
                "canplay", "timeupdate", "ended", "error", "playing"},
     keydown |-> {"keydown"},
     drag |-> {"mousemove", "mouseup", "touchmove", "touchend"}]

EventTarget == [media |-> "audio", keydown |-> "window", drag |-> "window"]

\* the handler functions created by one run of an effect
handlers(effect, types, run) ==
    {[target |-> EventTarget[effect], type |-> t, effect |-> effect,
      run |-> run] : t \in types}

\* a run not in use among the registered handlers of the effect
freshRun(L, effect) ==
    LET free == {n \in 1..MaxRuns :
                   \A l \in L : ~(l.effect = effect /\ l.run = n)}
    IN  IF free = {} THEN MaxRuns
        ELSE CHOOSE n \in free : \A m \in free : n <= m

cleanupKeepsHandlers(L, effect, run) == L

\* the function an effect returns: removes the handlers of its own run
cleanup(L, effect, run) == L \ handlers(effect, Released[effect], run)

\* One effect in a commit, on s = [l |-> listeners, c |-> cleanups]: the
\* pending cleanup runs, then the effect body, which subscribes or returns
\* early (the drag effect while not dragging).
runEffect(s, effect, subscribes) ==
    LET l1 == IF s.c[effect] = NoRun THEN s.l
              ELSE cleanup(s.l, effect, s.c[effect])
        run == freshRun(l1, effect)
    IN  IF subscribes
        THEN [l |-> l1 \cup handlers(effect, Acquired[effect], run),
              c |-> [s.c EXCEPT ![effect] = run]]
        ELSE [l |-> l1, c |-> [s.c EXCEPT ![effect] = NoRun]]

Unsubscribed == [l |-> {}, c |-> [e \in Effects |-> NoRun]]

\* mount: every effect runs once; isDragging is false
mountEffects(s) ==
    runEffect(runEffect(runEffect(s, "media", TRUE), "keydown", TRUE),
              "drag", FALSE)

\* unmount: every pending cleanup runs
unmountEffects(s) ==
    runEffect(runEffect(runEffect(s, "media", FALSE), "keydown", FALSE),
              "drag", FALSE)

\* a commit of the mounted player: the effects whose dependencies changed
commitEffects(s, mediaDeps, keydownDeps, dragDeps, dragging) ==
    LET s1 == IF mediaDeps THEN runEffect(s, "media", TRUE) ELSE s
        s2 == IF keydownDeps THEN runEffect(s1, "keydown", TRUE) ELSE s1
    IN  IF dragDeps THEN runEffect(s2, "drag", dragging) ELSE s2

----------------------------------------------------------------------------
(* Initial states *)

\* state right after mount: the useState / useRef initial values
MountedPlayer ==
    /\ isPlaying = FALSE
    /\ currentTime = 0
    /\ duration = 0
    /\ playbackRate = 100
    /\ volume = VOLUME_MAX
    /\ isMuted = FALSE
    /\ isLoading = (variant = "enhanced")
    /\ error = "none"
    /\ isDragging = FALSE
    /\ previousVolume = VOLUME_MAX
    /\ activeTopicIndex = IF variant = "enhanced"
                          THEN activeTopicIndexOf(topics, 0) ELSE NULL_INDEX
    /\ kbDuration = 0
    /\ LET s == IF variant = "enhanced" /\ PlayerMounted
                THEN mountEffects(Unsubscribed) ELSE Unsubscribed
       IN  /\ listeners = s.l
           /\ cleanups = s.c

\* a freshly created media element
FreshAdapter ==
    /\ audioTime = 0
    /\ audioPaused = TRUE
    /\ audioRate = 100
    /\ audioVolume = VOLUME_MAX
    /\ audioReady = "empty"
    /\ pendingPlays = <<>>

FreshHost ==
    /\ currentAudioTime = 0
    /\ currentWordIndex = getCurrentWordIndex(words, 0)

\* throttle(): timeoutId = null and lastExecTime = 0, so Date.now() is more
\* than the delay past lastExecTime
FreshThrottle ==
    /\ execAge = THROTTLE_DELAY + 1
    /\ timers = <<>>

\* the page after a file was processed: results hold the summary, whose
\* topic lines are `topics`, and the URL of the file's blob
ResultsShown ==
    /\ stage = "idle"
    /\ results = Some([summary |-> [text |-> "summary", topics |-> topics],
                       transcription |-> "transcript",
                       audioUrl |-> 1])
    /\ audioFile = Some([size |-> maxSize, type |-> <<"audio/mpeg">>,
                         name |-> <<"note", ".mp3">>])
    /\ liveUrls = {1}
    /\ transcriptionData = Undefined
    /\ calls = <<"transcribe-audio", "summarize-text">>
    /\ toast = "Success!"
    /\ pageOpen = TRUE

NoHistory ==
    /\ lastOp = "mount"
    /\ lastChosenVolume = VOLUME_MAX
    /\ deliveryAge = 0 - 1
    /\ lastDelivery = [gap |-> 0 - 1, latest |-> TRUE, stale |-> FALSE]
    /\ latestDelivered = TRUE

validTopicsInclusive(parsed, audioDuration) ==
    SelectSeq(parsed, LAMBDA topic :
                 audioDuration = 0 \/ topic.timestamp <= audioDuration)

\* ResultsDisplay parsedTopics: a parsed topic is kept when
\* audioDuration === 0 || timestamp < audioDuration
validTopics(parsed, audioDuration) ==
    SelectSeq(parsed, LAMBDA topic :
                 audioDuration = 0 \/ topic.timestamp < audioDuration)

\* topics parsed from the summary; the last one lies past the end of the
\* audio and is handed to the player until the duration is known
PlayerTopics ==
    <<[timestamp |-> 0], [timestamp |-> 2], [timestamp |-> SourceDuration + 1]>>

\* AudioPlayerProps.onTimeUpdate is optional; ResultsDisplay passes
\* handleAudioTimeUpdate
TimeUpdateProps == {"none", "handleAudioTimeUpdate"}

Init ==
    /\ variant \in Variants
    /\ topics = PlayerTopics
    /\ words = <<>>
    /\ onTimeUpdate \in TimeUpdateProps
    /\ ResultsShown
    /\ MountedPlayer
    /\ FreshAdapter
    /\ FreshHost
    /\ FreshThrottle
    /\ NoHistory

\* inputs of the index functions drawn from the bounded domains
InitIndex ==
    /\ variant \in Variants
    /\ topics \in SortedTopicSeqs
    /\ words \in SortedWordSeqs
    /\ onTimeUpdate = "handleAudioTimeUpdate"
    /\ ResultsShown
    /\ MountedPlayer
    /\ FreshAdapter
    /\ FreshHost
    /\ FreshThrottle
    /\ NoHistory

----------------------------------------------------------------------------
(* Index recomputation at a given time *)

\* enhanced: a render with currentTime = t recomputes the memo;
\* basic: handleTimeUpdate with audio.currentTime = t stores the index;
\* ResultsDisplay: a render with currentAudioTime = t recomputes the word index
RenderAt(t) ==
    /\ currentTime' = t
    /\ audioTime' = t
    /\ activeTopicIndex' = activeTopicIndexOf(topics, t)
    /\ currentAudioTime' = t
    /\ currentWordIndex' = getCurrentWordIndex(words, t)
    /\ lastOp' = "render"
    /\ UNCHANGED <<pageState, listenerState, propState, throttleState, lastChosenVolume, isPlaying, duration,
                   playbackRate, volume,
                   isMuted, isLoading, error, isDragging, previousVolume,
                   kbDuration, audioPaused, audioRate, audioVolume,
                   audioReady, pendingPlays>>

NextIndex == \E t \in ProbeTimes : RenderAt(t)

SpecIndex == InitIndex /\ [][NextIndex]_vars

\* parsedTopics is filled in the order the timestamps appear in the summary
\* text and is never sorted; words come from the transcription as returned
AnyTopicSeqs ==
    UNION {[1..n -> [timestamp : 0..MaxStamp]] : n \in 0..MaxTopics}

AnyWordSeqs ==
    UNION {{[i \in 1..n |-> [start |-> s[i], end |-> s[i] + d[i]]] :
            s \in [1..n -> 0..MaxStamp], d \in [1..n -> 0..1]} :
           n \in 0..MaxWords}

\* inputs of the index functions in any order, each function on its own
InitIndexAny ==
    /\ variant \in Variants
    /\ \/ topics \in AnyTopicSeqs /\ words = <<>>
       \/ topics = <<>> /\ words \in AnyWordSeqs
    /\ onTimeUpdate = "handleAudioTimeUpdate"
    /\ ResultsShown
    /\ MountedPlayer
    /\ FreshAdapter
    /\ FreshHost
    /\ FreshThrottle
    /\ NoHistory

SpecIndexAny == InitIndexAny /\ [][NextIndex]_vars

----------------------------------------------------------------------------
(* Rendering of the enhanced player *)

\* What a render after the handler's state updates recomputes: the useMemo
\* of activeTopicIndex (deps [currentTime, topics]) and the keydown effect
\* (deps [isPlaying, volume, isMuted]), whose handler closes over the
\* duration of the render that registered it.
RenderEnhanced ==
    /\ activeTopicIndex' = activeTopicIndexOf(topics', currentTime')
    /\ kbDuration' =
          IF <<isPlaying', volume', isMuted'>> # <<isPlaying, volume, isMuted>>
          THEN duration' ELSE kbDuration
    /\ LET s == [l |-> listeners, c |-> cleanups]
           after ==
             IF ~PlayerMountedIn(results', topics') THEN unmountEffects(s)
             ELSE commitEffects(s,
                    \/ isDragging' # isDragging
                    \/ duration' # duration
                    \/ currentAudioTime' # currentAudioTime,
                    <<isPlaying', volume', isMuted'>>
                       # <<isPlaying, volume, isMuted>>,
                    <<isDragging', duration'>> # <<isDragging, duration>>,
                    isDragging')
       IN  /\ listeners' = after.l
           /\ cleanups' = after.c

----------------------------------------------------------------------------
(* Playback rate *)

nextRateNoWrap(rates, rate) ==
    rates[Min(indexOf(rates, rate) + 1, Len(rates) - 1) + 1]

\* rates[(rates.indexOf(rate) + 1) % rates.length]
nextRate(rates, rate) ==
    rates[((indexOf(rates, rate) + 1) % Len(rates)) + 1]

\* enhanced handlePlaybackRateChange
handlePlaybackRateChange ==
    /\ variant = "enhanced"
    /\ audioRate' = nextRate(PLAYBACK_RATES, playbackRate)
    /\ playbackRate' = nextRate(PLAYBACK_RATES, playbackRate)
    /\ lastOp' = "handlePlaybackRateChange"
    /\ UNCHANGED <<pageState, propState, hostState, throttleState, lastChosenVolume, isPlaying, currentTime, duration,
                   volume, isMuted, isLoading, error, isDragging,
                   previousVolume, audioTime, audioPaused, audioVolume,
                   audioReady, pendingPlays>>
    /\ RenderEnhanced

\* basic handlePlaybackRateChange
basicHandlePlaybackRateChange ==
    /\ variant = "basic"
    /\ audioRate' = nextRate(BasicRates, playbackRate)
    /\ playbackRate' = nextRate(BasicRates, playbackRate)
    /\ lastOp' = "handlePlaybackRateChange"
    /\ UNCHANGED <<pageState, listenerState, propState, hostState, throttleState, lastChosenVolume, isPlaying, currentTime, duration,
                   volume, isMuted, isLoading, error, isDragging,
                   previousVolume, activeTopicIndex, kbDuration, audioTime,
                   audioPaused, audioVolume, audioReady, pendingPlays>>

----------------------------------------------------------------------------
(* Volume and mute *)

\* the four places a volume handler reads and writes
VolumeState ==
    [volume |-> volume, isMuted |-> isMuted,
     previousVolume |-> previousVolume, audioVolume |-> audioVolume]

\* the handler's result becomes the state
applyVolume(v) ==
    /\ volume' = v.volume
    /\ isMuted' = v.isMuted
    /\ previousVolume' = v.previousVolume
    /\ audioVolume' = v.audioVolume

volumeFrame ==
    UNCHANGED <<pageState, propState, hostState, throttleState, isPlaying, currentTime, duration,
                playbackRate, isLoading, error, isDragging, audioTime,
                audioPaused, audioRate, audioReady, pendingPlays>>

handleVolumeChangeOverwritesPrevious(v, volumeValue) ==
    [v EXCEPT !.audioVolume = volumeValue, !.volume = volumeValue,
              !.isMuted = (volumeValue = 0), !.previousVolume = volumeValue]

\* enhanced handleVolumeChange([volumeValue]).  The element's volume setter
\* throws for a value outside [0, 1], which ends the handler before any
\* state is set.
handleVolumeChange(v, volumeValue) ==
    IF volumeValue < 0 \/ volumeValue > VOLUME_MAX
    THEN v
    ELSE IF volumeValue = 0
    THEN [v EXCEPT !.audioVolume = volumeValue, !.volume = volumeValue,
                   !.isMuted = TRUE]
    ELSE [v EXCEPT !.audioVolume = volumeValue, !.volume = volumeValue,
                   !.isMuted = FALSE, !.previousVolume = volumeValue]

toggleMuteRestoresDefault(v) ==
    IF v.isMuted
    THEN [v EXCEPT !.audioVolume = VOLUME_MAX, !.volume = VOLUME_MAX,
                   !.isMuted = FALSE]
    ELSE [v EXCEPT !.previousVolume = v.volume, !.audioVolume = 0,
                   !.volume = 0, !.isMuted = TRUE]

\* enhanced toggleMute
toggleMute(v) ==
    IF v.isMuted
    THEN [v EXCEPT !.audioVolume = v.previousVolume,
                   !.volume = v.previousVolume, !.isMuted = FALSE]
    ELSE [v EXCEPT !.previousVolume = v.volume, !.audioVolume = 0,
                   !.volume = 0, !.isMuted = TRUE]

adjustedVolumeCoarse(v, delta) == Max(0, Min(VOLUME_MAX, v.volume + 2 * delta))

\* the level adjustVolume(delta) passes on
adjustedVolume(v, delta) == Max(0, Min(VOLUME_MAX, v.volume + delta))

\* enhanced adjustVolume(delta)
adjustVolume(v, delta) == handleVolumeChange(v, adjustedVolume(v, delta))

\* a run of handleVolumeChange with `level`, from the slider or from a key
VolumeChangeStep(level) ==
    /\ applyVolume(handleVolumeChange(VolumeState, level))
    /\ lastChosenVolume' = IF level # 0 THEN level ELSE lastChosenVolume
    /\ lastOp' = "handleVolumeChange"
    /\ volumeFrame
    /\ RenderEnhanced

\* a run of toggleMute, from the button or from the M key
ToggleMuteStep ==
    /\ applyVolume(toggleMute(VolumeState))
    /\ lastOp' = "toggleMute"
    /\ UNCHANGED lastChosenVolume
    /\ volumeFrame
    /\ RenderEnhanced

\* the volume Slider's onValueChange (step 0.01, modelled in tenths)
SliderChange(level) ==
    /\ variant = "enhanced"
    /\ VolumeChangeStep(level)

\* the mute Button's onClick
MuteButton ==
    /\ variant = "enhanced"
    /\ ToggleMuteStep

\* basic handleVolumeChange
basicHandleVolumeChange(v, newVolume) ==
    [v EXCEPT !.audioVolume = newVolume, !.volume = newVolume,
              !.isMuted = (newVolume = 0)]

\* basic toggleMute
basicToggleMute(v) ==
    IF v.isMuted
    THEN [v EXCEPT !.audioVolume =
                       IF v.volume # 0 THEN v.volume ELSE VOLUME_FALLBACK,
                   !.isMuted = FALSE]
    ELSE [v EXCEPT !.audioVolume = 0, !.isMuted = TRUE]

BasicSliderChange(level) ==
    /\ variant = "basic"
    /\ applyVolume(basicHandleVolumeChange(VolumeState, level))
    /\ lastChosenVolume' = IF level # 0 THEN level ELSE lastChosenVolume
    /\ lastOp' = "handleVolumeChange"
    /\ volumeFrame
    /\ UNCHANGED <<listenerState, activeTopicIndex, kbDuration>>

BasicMuteButton ==
    /\ variant = "basic"
    /\ applyVolume(basicToggleMute(VolumeState))
    /\ lastOp' = "toggleMute"
    /\ volumeFrame
    /\ UNCHANGED <<listenerState, lastChosenVolume, activeTopicIndex, kbDuration>>

----------------------------------------------------------------------------
(* The media element (adapter) *)

\* setter of audio.currentTime: clamped to the resource once it is known,
\* kept as the default start position before that
adapterSeek(x) ==
    IF audioReady = "ready" THEN Max(0, Min(SourceDuration, x)) ELSE Max(0, x)

\* play() is accepted (paused flips, the promise stays pending) unless the
\* autoplay policy blocks it or the element has no usable source
playAccepted(allowed) == allowed /\ audioReady # "failed"

\* the name play() rejects with at once when it is not accepted
playRejection(allowed) ==
    IF ~allowed THEN "NotAllowedError" ELSE "NotSupportedError"

\* play() on an element that has ended playback seeks back to the start
positionAfterPlay(pos) ==
    IF audioReady = "ready" /\ pos = SourceDuration THEN 0 ELSE pos

\* pending play() promises are rejected with `name` (pause(), ended, error)
rejectPending(name) ==
    [i \in 1..Len(pendingPlays) |->
        [pendingPlays[i] EXCEPT !.fate = IF @ = "ok" THEN name ELSE @]]

\* pause(): only an element that is not paused rejects its pending promises
pendingAfterPause ==
    IF audioPaused THEN pendingPlays ELSE rejectPending("AbortError")

\* playback moves the position forward by one step
AdapterAdvance ==
    /\ ~audioPaused
    /\ audioReady = "ready"
    /\ audioTime < SourceDuration
    /\ audioTime' = audioTime + 1
    /\ lastOp' = "playback"
    /\ UNCHANGED <<pageState, listenerState, propState, hostState, throttleState, lastChosenVolume, playerState, audioPaused, audioRate,
                   audioVolume, audioReady, pendingPlays>>

----------------------------------------------------------------------------
(* Throttled time propagation to ResultsDisplay *)

\* A timer is a setTimeout callback of a throttle instance that has not run:
\* `value` is the time it will deliver, `left` the time until it is due,
\* `live` says whether its instance is the one handleTimeUpdate calls.
\* History fields: `latest` - no tick reached the throttle after this one;
\* `stale` - a tick newer than this one has already been delivered.
\* Timers are kept in the order of the ticks that set them.
Timer(value) ==
    [value |-> value, left |-> THROTTLE_DELAY, live |-> TRUE,
     latest |-> TRUE, stale |-> FALSE]

\* useCallback(throttle(...), [onTimeUpdate]): a render of ResultsDisplay
\* passes a new handleAudioTimeUpdate, so the player gets a new throttle
\* instance; the timeout of the old one is not cleared
orphaned(ts) == [i \in 1..Len(ts) |-> [ts[i] EXCEPT !.live = FALSE]]

\* a newer tick arrived
superseded(ts) == [i \in 1..Len(ts) |-> [ts[i] EXCEPT !.latest = FALSE]]

\* a newer tick was delivered
outdated(ts) == [i \in 1..Len(ts) |-> [ts[i] EXCEPT !.stale = TRUE]]

IsOrphan(timer) == ~timer.live

\* ResultsDisplay handleAudioTimeUpdate(time) and the render that follows
handleAudioTimeUpdate(time) ==
    /\ currentAudioTime' = time
    /\ currentWordIndex' = getCurrentWordIndex(words, time)

\* setCurrentAudioTime(time) re-renders ResultsDisplay when time is new
hostRenders(time) == time # currentAudioTime

\* history of an onTimeUpdate call
recordDelivery(latest, stale) ==
    /\ lastDelivery' = [gap |-> deliveryAge, latest |-> latest, stale |-> stale]
    /\ deliveryAge' = 0

throttledTimeUpdateDropsPending(time) ==
    IF execAge > THROTTLE_DELAY
    THEN /\ handleAudioTimeUpdate(time)
         /\ execAge' = IF hostRenders(time) THEN THROTTLE_DELAY + 1 ELSE 0
         /\ timers' = IF hostRenders(time)
                       THEN orphaned(outdated(superseded(timers)))
                       ELSE outdated(superseded(timers))
         /\ recordDelivery(TRUE, FALSE)
         /\ latestDelivered' = TRUE
    ELSE /\ timers' = SelectSeq(superseded(timers), IsOrphan)
         /\ latestDelivered' = FALSE
         /\ UNCHANGED <<hostState, execAge, deliveryAge, lastDelivery>>

\* the function returned by throttle(), called with the element's time.
\* Without an onTimeUpdate prop the throttled function does nothing, and
\* the instance's timers are left out.
throttledTimeUpdate(time) ==
    IF onTimeUpdate = "none"
    THEN UNCHANGED <<hostState, throttleState>>
    ELSE IF execAge > THROTTLE_DELAY
    THEN /\ handleAudioTimeUpdate(time)
         /\ execAge' = IF hostRenders(time) THEN THROTTLE_DELAY + 1 ELSE 0
         /\ timers' = IF hostRenders(time)
                       THEN orphaned(outdated(superseded(timers)))
                       ELSE outdated(superseded(timers))
         /\ recordDelivery(TRUE, FALSE)
         /\ latestDelivered' = TRUE
    ELSE /\ timers' = Append(SelectSeq(superseded(timers), IsOrphan),
                             Timer(time))
         /\ latestDelivered' = FALSE
         /\ UNCHANGED <<hostState, execAge, deliveryAge, lastDelivery>>

\* no more than MaxTimers timeouts are kept waiting
TimerRoom ==
    \/ onTimeUpdate = "none"
    \/ execAge > THROTTLE_DELAY
    \/ Len(SelectSeq(timers, IsOrphan)) < MaxTimers

\* timers[i] is due: func(...args); lastExecTime = Date.now()
TimerFire(i) ==
    /\ i \in 1..Len(timers)
    /\ timers[i].left = 0
    /\ handleAudioTimeUpdate(timers[i].value)
    /\ LET rest == [j \in 1..(Len(timers) - 1) |->
                       IF j < i THEN [timers[j] EXCEPT !.stale = TRUE]
                       ELSE timers[j + 1]]
       IN  timers' = IF hostRenders(timers[i].value) THEN orphaned(rest)
                     ELSE rest
    /\ execAge' = IF hostRenders(timers[i].value) THEN THROTTLE_DELAY + 1
                  ELSE IF timers[i].live THEN 0 ELSE execAge
    /\ recordDelivery(timers[i].latest, timers[i].stale)
    /\ latestDelivered' = (latestDelivered \/ timers[i].latest)
    /\ lastOp' = "timeout"
    /\ UNCHANGED <<pageState, listenerState, propState, playerState, adapterState, lastChosenVolume>>

\* 50 ms pass; a timeout that is due runs before the clock moves on
ClockTick ==
    /\ \A i \in 1..Len(timers) : timers[i].left > 0
    /\ execAge' = Min(execAge + 1, THROTTLE_DELAY + 1)
    /\ timers' = [i \in 1..Len(timers) |->
                    [timers[i] EXCEPT !.left = @ - 1]]
    /\ deliveryAge' = IF deliveryAge < 0 THEN deliveryAge
                      ELSE Min(deliveryAge + 1, THROTTLE_DELAY)
    /\ lastOp' = "clock"
    /\ UNCHANGED <<pageState, listenerState, propState, playerState, adapterState, hostState,
                   lastDelivery, latestDelivered, lastChosenVolume>>

\* ResultsDisplay renders for a reason of its own (handleCopy sets a
\* "copied" flag): the player gets a new throttle instance
HostRender ==
    /\ variant = "enhanced"
    /\ onTimeUpdate # "none"
    /\ execAge' = THROTTLE_DELAY + 1
    /\ timers' = orphaned(timers)
    /\ lastOp' = "hostRender"
    /\ UNCHANGED <<pageState, listenerState, propState, playerState, adapterState, hostState,
                   deliveryAge, lastDelivery, latestDelivered,
                   lastChosenVolume>>

----------------------------------------------------------------------------
(* Enhanced player: media events *)

\* 'loadedmetadata'; onDurationChange makes ResultsDisplay set audioDuration
\* and hand over the filtered topics in the same render
handleLoadedMetadata ==
    /\ variant = "enhanced"
    /\ audioReady = "empty"
    /\ audioReady' = "ready"
    /\ audioTime' = Min(audioTime, SourceDuration)
    /\ duration' = SourceDuration
    /\ isLoading' = FALSE
    /\ error' = "none"
    /\ topics' = validTopics(topics, SourceDuration)
    /\ lastOp' = "handleLoadedMetadata"
    /\ execAge' = THROTTLE_DELAY + 1
    /\ timers' = orphaned(timers)
    /\ UNCHANGED <<pageState, variant, words, onTimeUpdate, hostState, deliveryAge, lastDelivery,
                   latestDelivered, lastChosenVolume, isPlaying,
                   currentTime, playbackRate, volume, isMuted, isDragging,
                   previousVolume, audioPaused, audioRate, audioVolume,
                   pendingPlays>>
    /\ RenderEnhanced

MediaErrorCodes ==
    {"MEDIA_ERR_ABORTED", "MEDIA_ERR_NETWORK", "MEDIA_ERR_DECODE",
     "MEDIA_ERR_SRC_NOT_SUPPORTED"}

\* the message handleError's switch picks for audioElement.error.code
errorMessage(code) ==
    CASE code = "MEDIA_ERR_NETWORK" -> "Network error while loading audio."
      [] code = "MEDIA_ERR_DECODE" -> "Error decoding audio file."
      [] code = "MEDIA_ERR_SRC_NOT_SUPPORTED" ->
             "Audio format not supported by your browser."
      [] OTHER -> "Error loading audio file."

\* audioElement.error is null when the 'error' event is handled
NoErrorDetail == "none"

ErrorEvents == MediaErrorCodes \cup {NoErrorDetail}

handleErrorKeepsLoading(code) ==
    /\ variant = "enhanced"
    /\ audioReady \notin {"failed", "reloading"}
    /\ IF code = NoErrorDetail
       THEN UNCHANGED <<audioReady, pendingPlays, error>>
       ELSE /\ audioReady' = "failed"
            /\ pendingPlays' = rejectPending("NotSupportedError")
            /\ error' = errorMessage(code)
    /\ lastOp' = "handleError"
    /\ UNCHANGED <<pageState, propState, hostState, throttleState, lastChosenVolume, isPlaying, currentTime, duration,
                   playbackRate, volume, isMuted, isLoading, isDragging, previousVolume,
                   audioTime, audioPaused, audioRate, audioVolume>>
    /\ RenderEnhanced

\* 'error': the handler sets the message and isLoading only inside
\* if (audioElement.error).  An element whose error attribute is null has
\* not failed: its load goes on.
handleError(code) ==
    /\ variant = "enhanced"
    /\ audioReady \notin {"failed", "reloading"}
    /\ IF code = NoErrorDetail
       THEN UNCHANGED <<audioReady, pendingPlays, error, isLoading>>
       ELSE /\ audioReady' = "failed"
            /\ pendingPlays' = rejectPending("NotSupportedError")
            /\ error' = errorMessage(code)
            /\ isLoading' = FALSE
    /\ lastOp' = "handleError"
    /\ UNCHANGED <<pageState, propState, hostState, throttleState, lastChosenVolume, isPlaying, currentTime, duration,
                   playbackRate, volume, isMuted, isDragging, previousVolume,
                   audioTime, audioPaused, audioRate, audioVolume>>
    /\ RenderEnhanced

\* 'loadstart': dispatched after load(); the one of the mount finds
\* isLoading true and error null already
handleLoadStart ==
    /\ variant = "enhanced"
    /\ audioReady = "reloading"
    /\ audioReady' = "empty"
    /\ isLoading' = TRUE
    /\ error' = "none"
    /\ lastOp' = "handleLoadStart"
    /\ UNCHANGED <<pageState, propState, hostState, throttleState, lastChosenVolume, isPlaying, currentTime, duration,
                   playbackRate, volume, isMuted, isDragging, previousVolume,
                   audioTime, audioPaused, audioRate, audioVolume, pendingPlays>>
    /\ RenderEnhanced

\* state updates shared by 'loadeddata', 'canplay' and 'playing'
loadedFrame ==
    /\ isLoading' = FALSE
    /\ UNCHANGED <<pageState, propState, hostState, throttleState, lastChosenVolume, isPlaying, currentTime, duration,
                   playbackRate, volume, isMuted, isDragging, previousVolume,
                   adapterState>>
    /\ RenderEnhanced

\* 'loadeddata'
handleLoadedData ==
    /\ variant = "enhanced"
    /\ audioReady = "ready"
    /\ UNCHANGED error
    /\ lastOp' = "handleLoadedData"
    /\ loadedFrame

\* 'canplay'
handleCanPlay ==
    /\ variant = "enhanced"
    /\ audioReady = "ready"
    /\ error' = "none"
    /\ lastOp' = "handleCanPlay"
    /\ loadedFrame

\* 'playing'
handlePlaying ==
    /\ variant = "enhanced"
    /\ audioReady = "ready" /\ ~audioPaused
    /\ error' = "none"
    /\ lastOp' = "handlePlaying"
    /\ loadedFrame

\* a rejected play() promise runs its catch callback in the microtask
\* checkpoint of the task that rejected it, before the next click
NoCallbackDue == \A i \in 1..Len(pendingPlays) : pendingPlays[i].fate = "ok"

RetryKeepsError ==
    /\ variant = "enhanced"
    /\ error # "none"
    /\ NoCallbackDue
    /\ UNCHANGED error
    /\ audioReady' = "reloading"
    /\ audioTime' = 0
    /\ audioPaused' = TRUE
    /\ audioRate' = 100
    /\ pendingPlays' = rejectPending("AbortError")
    /\ lastOp' = "Retry"
    /\ UNCHANGED <<pageState, propState, hostState, throttleState, lastChosenVolume, isPlaying, currentTime, duration,
                   playbackRate, volume, isMuted, isLoading, isDragging, previousVolume,
                   audioVolume>>
    /\ RenderEnhanced

\* Retry button (shown while error is set): setError(null); audio.load().
\* load() resets the element: paused, position 0, playbackRate back to
\* defaultPlaybackRate, pending play() promises rejected, 'loadstart' queued.
Retry ==
    /\ variant = "enhanced"
    /\ error # "none"
    /\ NoCallbackDue
    /\ error' = "none"
    /\ audioReady' = "reloading"
    /\ audioTime' = 0
    /\ audioPaused' = TRUE
    /\ audioRate' = 100
    /\ pendingPlays' = rejectPending("AbortError")
    /\ lastOp' = "Retry"
    /\ UNCHANGED <<pageState, propState, hostState, throttleState, lastChosenVolume, isPlaying, currentTime, duration,
                   playbackRate, volume, isMuted, isLoading, isDragging, previousVolume,
                   audioVolume>>
    /\ RenderEnhanced

\* promises of the element that is removed: `resolved` says whether their
\* resolution was already queued; otherwise the removal pauses the element
\* and rejects them.  Their callbacks belong to the unmounted player.
unmounted(ps, resolved) ==
    [i \in 1..Len(ps) |->
        [origin |-> "unmounted",
         fate |-> IF ps[i].fate = "ok" /\ ~resolved
                  THEN "AbortError" ELSE ps[i].fate]]

\* Source switch: handleNewFile clears results, which unmounts ResultsDisplay
\* and the player; the results of the next file mount new instances, with
\* the useState / useRef initial values and a new media element.
handleNewFile(resolved) ==
    /\ variant = "enhanced"
    /\ topics' = PlayerTopics
    /\ isPlaying' = FALSE
    /\ currentTime' = 0
    /\ duration' = 0
    /\ playbackRate' = 100
    /\ volume' = VOLUME_MAX
    /\ isMuted' = FALSE
    /\ isLoading' = TRUE
    /\ error' = "none"
    /\ isDragging' = FALSE
    /\ previousVolume' = VOLUME_MAX
    /\ activeTopicIndex' = activeTopicIndexOf(PlayerTopics, 0)
    /\ kbDuration' = 0
    /\ audioTime' = 0
    /\ audioPaused' = TRUE
    /\ audioRate' = 100
    /\ audioVolume' = VOLUME_MAX
    /\ audioReady' = "empty"
    /\ pendingPlays' = unmounted(pendingPlays, resolved)
    /\ currentAudioTime' = 0
    /\ currentWordIndex' = getCurrentWordIndex(words, 0)
    /\ execAge' = THROTTLE_DELAY + 1
    /\ timers' = orphaned(timers)
    /\ LET s == mountEffects(unmountEffects([l |-> listeners,
                                              c |-> cleanups]))
       IN  /\ listeners' = s.l
           /\ cleanups' = s.c
    /\ lastOp' = "handleNewFile"
    /\ UNCHANGED <<pageState, variant, words, onTimeUpdate, deliveryAge, lastDelivery,
                   latestDelivered, lastChosenVolume>>

handleTimeUpdateWhileDragging ==
    /\ variant = "enhanced"
    /\ audioReady = "ready"
    /\ TimerRoom
    /\ currentTime' = audioTime
    /\ throttledTimeUpdate(audioTime)
    /\ lastOp' = "handleTimeUpdate"
    /\ UNCHANGED <<pageState, propState, lastChosenVolume, isPlaying, duration,
                   playbackRate, volume, isMuted, isLoading, error,
                   isDragging, previousVolume, adapterState>>
    /\ RenderEnhanced

\* 'timeupdate', which the element fires once it has a position to report
handleTimeUpdate ==
    /\ variant = "enhanced"
    /\ audioReady = "ready"
    /\ TimerRoom
    /\ IF ~isDragging
       THEN /\ currentTime' = audioTime
            /\ throttledTimeUpdate(audioTime)
       ELSE UNCHANGED <<currentTime, hostState, throttleState>>
    /\ lastOp' = "handleTimeUpdate"
    /\ UNCHANGED <<pageState, propState, lastChosenVolume, isPlaying, duration,
                   playbackRate, volume, isMuted, isLoading, error,
                   isDragging, previousVolume, adapterState>>
    /\ RenderEnhanced

\* 'ended': the element reached the end, paused itself and rejected what was
\* pending; the handler clears isPlaying
handleEndedRewinds ==
    /\ variant = "enhanced"
    /\ audioReady = "ready" /\ ~audioPaused /\ audioTime = SourceDuration
    /\ audioPaused' = TRUE
    /\ pendingPlays' = rejectPending("AbortError")
    /\ isPlaying' = FALSE
    /\ currentTime' = 0
    /\ lastOp' = "handleEnded"
    /\ UNCHANGED <<pageState, propState, hostState, throttleState, lastChosenVolume, duration, playbackRate,
                   volume, isMuted, isLoading, error, isDragging,
                   previousVolume, audioTime, audioRate, audioVolume,
                   audioReady>>
    /\ RenderEnhanced

handleEnded ==
    /\ variant = "enhanced"
    /\ audioReady = "ready" /\ ~audioPaused /\ audioTime = SourceDuration
    /\ audioPaused' = TRUE
    /\ pendingPlays' = rejectPending("AbortError")
    /\ isPlaying' = FALSE
    /\ lastOp' = "handleEnded"
    /\ UNCHANGED <<pageState, propState, hostState, throttleState, lastChosenVolume, currentTime, duration, playbackRate,
                   volume, isMuted, isLoading, error, isDragging,
                   previousVolume, audioTime, audioRate, audioVolume,
                   audioReady>>
    /\ RenderEnhanced

----------------------------------------------------------------------------
(* Enhanced player: transport commands *)

togglePlayPauseOptimistic(allowed) ==
    /\ IF isPlaying
       THEN /\ audioPaused' = TRUE
            /\ pendingPlays' = pendingAfterPause
            /\ UNCHANGED audioTime
       ELSE /\ Len(pendingPlays) < MaxPending
            /\ audioPaused' = (IF playAccepted(allowed) THEN FALSE ELSE audioPaused)
            /\ audioTime' = (IF playAccepted(allowed)
                             THEN positionAfterPlay(audioTime) ELSE audioTime)
            /\ pendingPlays' = (IF playAccepted(allowed)
                                THEN Append(pendingPlays,
                                            [origin |-> "toggle", fate |-> "ok"])
                                ELSE pendingPlays)
    /\ isPlaying' = ~isPlaying
    /\ lastOp' = "togglePlayPause"
    /\ UNCHANGED <<pageState, propState, hostState, throttleState, lastChosenVolume, currentTime, duration, playbackRate,
                   volume, isMuted, isLoading, error, isDragging,
                   previousVolume, audioRate, audioVolume, audioReady>>
    /\ RenderEnhanced

\* togglePlayPause.  A play() that is rejected at once runs the catch callback
\* in the microtask checkpoint of the same task, so that case is one step.
togglePlayPause(allowed) ==
    /\ IF isPlaying
       THEN /\ audioPaused' = TRUE
            /\ pendingPlays' = pendingAfterPause
            /\ isPlaying' = FALSE
            /\ UNCHANGED <<audioTime, error>>
       ELSE IF playAccepted(allowed)
       THEN /\ Len(pendingPlays) < MaxPending
            /\ audioPaused' = FALSE
            /\ audioTime' = positionAfterPlay(audioTime)
            /\ pendingPlays' = Append(pendingPlays,
                                      [origin |-> "toggle", fate |-> "ok"])
            /\ UNCHANGED <<isPlaying, error>>
       ELSE /\ error' = (IF playRejection(allowed) \notin
                               {"AbortError", "NotAllowedError"}
                         THEN "Playback failed." ELSE error)
            /\ isPlaying' = FALSE
            /\ UNCHANGED <<audioPaused, audioTime, pendingPlays>>
    /\ lastOp' = "togglePlayPause"
    /\ UNCHANGED <<pageState, propState, hostState, throttleState, lastChosenVolume, currentTime, duration, playbackRate,
                   volume, isMuted, isLoading, isDragging, previousVolume,
                   audioRate, audioVolume, audioReady>>
    /\ RenderEnhanced

SettlePlaySurfacesAll ==
    /\ variant = "enhanced"
    /\ pendingPlays # <<>>
    /\ LET head == Head(pendingPlays) IN
       /\ (head.fate = "ok" /\ head.origin # "unmounted") =>
             (audioReady = "ready" /\ ~audioPaused)
       /\ IF head.origin = "unmounted"
          THEN UNCHANGED <<isPlaying, error>>
          ELSE IF head.fate = "ok"
          THEN /\ isPlaying' = TRUE
               /\ error' = (IF head.origin = "toggle" THEN "none" ELSE error)
          ELSE IF head.origin = "toggle"
          THEN /\ error' = "Playback failed."
               /\ isPlaying' = FALSE
          ELSE UNCHANGED <<isPlaying, error>>
    /\ pendingPlays' = Tail(pendingPlays)
    /\ lastOp' = "playPromise"
    /\ UNCHANGED <<pageState, propState, hostState, throttleState, lastChosenVolume, currentTime, duration, playbackRate,
                   volume, isMuted, isLoading, isDragging, previousVolume,
                   audioTime, audioPaused, audioRate, audioVolume, audioReady>>
    /\ RenderEnhanced

SettlePlayAfterUnmount ==
    /\ variant = "enhanced"
    /\ pendingPlays # <<>>
    /\ LET head == Head(pendingPlays) IN
       /\ (head.fate = "ok" /\ head.origin # "unmounted") =>
             (audioReady = "ready" /\ ~audioPaused)
       /\ IF head.fate = "ok"
          THEN /\ isPlaying' = TRUE
               /\ error' = (IF head.origin = "toggle" THEN "none" ELSE error)
          ELSE IF head.origin = "toggle"
          THEN /\ error' = (IF head.fate \notin {"AbortError", "NotAllowedError"}
                            THEN "Playback failed." ELSE error)
               /\ isPlaying' = FALSE
          ELSE UNCHANGED <<isPlaying, error>>
    /\ pendingPlays' = Tail(pendingPlays)
    /\ lastOp' = "playPromise"
    /\ UNCHANGED <<pageState, propState, hostState, throttleState, lastChosenVolume, currentTime, duration, playbackRate,
                   volume, isMuted, isLoading, isDragging, previousVolume,
                   audioTime, audioPaused, audioRate, audioVolume, audioReady>>
    /\ RenderEnhanced

\* the oldest pending play() promise settles and its callback runs; the
\* setState calls of a callback whose component is unmounted have no effect
SettlePlay ==
    /\ variant = "enhanced"
    /\ pendingPlays # <<>>
    /\ LET head == Head(pendingPlays) IN
       /\ (head.fate = "ok" /\ head.origin # "unmounted") =>
             (audioReady = "ready" /\ ~audioPaused)
       /\ IF head.origin = "unmounted"
          THEN UNCHANGED <<isPlaying, error>>
          ELSE IF head.fate = "ok"
          THEN /\ isPlaying' = TRUE
               /\ error' = (IF head.origin = "toggle" THEN "none" ELSE error)
          ELSE IF head.origin = "toggle"
          THEN /\ error' = (IF head.fate \notin {"AbortError", "NotAllowedError"}
                            THEN "Playback failed." ELSE error)
               /\ isPlaying' = FALSE
          ELSE UNCHANGED <<isPlaying, error>>
    /\ pendingPlays' = Tail(pendingPlays)
    /\ lastOp' = "playPromise"
    /\ UNCHANGED <<pageState, propState, hostState, throttleState, lastChosenVolume, currentTime, duration, playbackRate,
                   volume, isMuted, isLoading, isDragging, previousVolume,
                   audioTime, audioPaused, audioRate, audioVolume, audioReady>>
    /\ RenderEnhanced

skipFromStateTime(seconds, dur) ==
    /\ audioTime' = adapterSeek(Max(0, Min(dur, currentTime + seconds)))
    /\ currentTime' = Max(0, Min(dur, currentTime + seconds))
    /\ lastOp' = "skip"
    /\ UNCHANGED <<pageState, propState, hostState, throttleState, lastChosenVolume, isPlaying, duration, playbackRate,
                   volume, isMuted, isLoading, error, isDragging,
                   previousVolume, audioPaused, audioRate, audioVolume,
                   audioReady, pendingPlays>>
    /\ RenderEnhanced

skipPausesPlayback(seconds, dur) ==
    /\ audioTime' = adapterSeek(Max(0, Min(dur, audioTime + seconds)))
    /\ currentTime' = Max(0, Min(dur, audioTime + seconds))
    /\ isPlaying' = FALSE
    /\ audioPaused' = TRUE
    /\ lastOp' = "skip"
    /\ UNCHANGED <<pageState, propState, hostState, throttleState, lastChosenVolume, duration,
                   playbackRate, volume, isMuted, isLoading, error,
                   isDragging, previousVolume, audioRate, audioVolume,
                   audioReady, pendingPlays>>
    /\ RenderEnhanced

\* skip(seconds), run by a handler whose closure holds duration = dur
skip(seconds, dur) ==
    /\ audioTime' = adapterSeek(Max(0, Min(dur, audioTime + seconds)))
    /\ currentTime' = Max(0, Min(dur, audioTime + seconds))
    /\ lastOp' = "skip"
    /\ UNCHANGED <<pageState, propState, hostState, throttleState, lastChosenVolume, isPlaying, duration, playbackRate,
                   volume, isMuted, isLoading, error, isDragging,
                   previousVolume, audioPaused, audioRate, audioVolume,
                   audioReady, pendingPlays>>
    /\ RenderEnhanced

----------------------------------------------------------------------------
(* Enhanced player: scrubbing and topic jumps *)

PointerXs == (0 - 1)..(TrackWidth + 1)   \* clientX - rect.left

progressTimeUnclamped(clickX) == (clickX * duration) \div TrackWidth

\* newTime of updateProgressFromEvent: percentage * duration
progressTime(clickX) ==
    (Max(0, Min(TrackWidth, clickX)) * duration) \div TrackWidth

\* updateProgressFromEvent(clientX): nothing happens while duration === 0
updateProgressFromEvent(clickX) ==
    IF duration = 0
    THEN UNCHANGED <<audioTime, currentTime>>
    ELSE /\ audioTime' = adapterSeek(progressTime(clickX))
         /\ currentTime' = progressTime(clickX)

dragFrame ==
    UNCHANGED <<pageState, propState, hostState, throttleState, lastChosenVolume, isPlaying, duration, playbackRate,
                volume, isMuted, isLoading, error, previousVolume,
                audioPaused, audioRate, audioVolume, audioReady, pendingPlays>>

\* onMouseDown / onTouchStart of the progress bar
handleProgressInteraction(clickX) ==
    /\ variant = "enhanced"
    /\ isDragging' = TRUE
    /\ updateProgressFromEvent(clickX)
    /\ lastOp' = "handleProgressInteraction"
    /\ dragFrame
    /\ RenderEnhanced

\* window 'mousemove' / 'touchmove', registered only while dragging
handleMouseMove(clickX) ==
    /\ variant = "enhanced"
    /\ isDragging
    /\ updateProgressFromEvent(clickX)
    /\ UNCHANGED isDragging
    /\ lastOp' = "handleMouseMove"
    /\ dragFrame
    /\ RenderEnhanced

\* window 'mouseup' / 'touchend', registered only while dragging
handleMouseUp ==
    /\ variant = "enhanced"
    /\ isDragging
    /\ isDragging' = FALSE
    /\ UNCHANGED <<audioTime, currentTime>>
    /\ lastOp' = "handleMouseUp"
    /\ dragFrame
    /\ RenderEnhanced

handleTopicMarkerClickClamped(timestamp, allowed) ==
    /\ variant = "enhanced"
    /\ currentTime' = Min(duration, timestamp)
    /\ IF ~isPlaying /\ playAccepted(allowed)
       THEN /\ Len(pendingPlays) < MaxPending
            /\ audioTime' = positionAfterPlay(adapterSeek(Min(duration, timestamp)))
            /\ audioPaused' = FALSE
            /\ pendingPlays' = Append(pendingPlays,
                                      [origin |-> "topic", fate |-> "ok"])
       ELSE /\ audioTime' = adapterSeek(Min(duration, timestamp))
            /\ UNCHANGED <<audioPaused, pendingPlays>>
    /\ lastOp' = "handleTopicMarkerClick"
    /\ UNCHANGED <<pageState, propState, hostState, throttleState, lastChosenVolume, isPlaying, duration, playbackRate,
                   volume, isMuted, isLoading, error, isDragging,
                   previousVolume, audioRate, audioVolume, audioReady>>
    /\ RenderEnhanced

\* handleTopicMarkerClick(timestamp); onTopicClick only scrolls the page
handleTopicMarkerClick(timestamp, allowed) ==
    /\ variant = "enhanced"
    /\ currentTime' = timestamp
    /\ IF ~isPlaying /\ playAccepted(allowed)
       THEN /\ Len(pendingPlays) < MaxPending
            /\ audioTime' = positionAfterPlay(adapterSeek(timestamp))
            /\ audioPaused' = FALSE
            /\ pendingPlays' = Append(pendingPlays,
                                      [origin |-> "topic", fate |-> "ok"])
       ELSE /\ audioTime' = adapterSeek(timestamp)
            /\ UNCHANGED <<audioPaused, pendingPlays>>
    /\ lastOp' = "handleTopicMarkerClick"
    /\ UNCHANGED <<pageState, propState, hostState, throttleState, lastChosenVolume, isPlaying, duration, playbackRate,
                   volume, isMuted, isLoading, error, isDragging,
                   previousVolume, audioRate, audioVolume, audioReady>>
    /\ RenderEnhanced

----------------------------------------------------------------------------
(* Enhanced player: buttons and keyboard *)

PlayButton(allowed) ==
    /\ variant = "enhanced"
    /\ togglePlayPause(allowed)

SkipButton(seconds) ==
    /\ variant = "enhanced"
    /\ skip(seconds, duration)

KeyCodes == {"Space", "ArrowLeft", "ArrowRight", "ArrowUp", "ArrowDown", "KeyM"}

handleKeyPressAnyTarget(code, targetIsInput, allowed) ==
    /\ variant = "enhanced"
    /\ IF FALSE
       THEN /\ lastOp' = "handleKeyPress"
            /\ UNCHANGED <<pageState, listenerState, propState, playerState, adapterState, hostState,
                           throttleState, lastChosenVolume>>
       ELSE CASE code = "Space" -> togglePlayPause(allowed)
              [] code = "ArrowLeft" -> skip(0 - SKIP_DURATION, kbDuration)
              [] code = "ArrowRight" -> skip(SKIP_DURATION, kbDuration)
              [] code = "ArrowUp" ->
                     VolumeChangeStep(adjustedVolume(VolumeState, VOLUME_STEP))
              [] code = "ArrowDown" ->
                     VolumeChangeStep(adjustedVolume(VolumeState, 0 - VOLUME_STEP))
              [] code = "KeyM" -> ToggleMuteStep
              [] OTHER -> UNCHANGED vars

\* window 'keydown': handleKeyPress.  The handler in force was registered by
\* the render in which isPlaying, volume or isMuted last changed.
handleKeyPress(code, targetIsInput, allowed) ==
    /\ variant = "enhanced"
    /\ IF targetIsInput
       THEN /\ lastOp' = "handleKeyPress"
            /\ UNCHANGED <<pageState, listenerState, propState, playerState, adapterState, hostState,
                           throttleState, lastChosenVolume>>
       ELSE CASE code = "Space" -> togglePlayPause(allowed)
              [] code = "ArrowLeft" -> skip(0 - SKIP_DURATION, kbDuration)
              [] code = "ArrowRight" -> skip(SKIP_DURATION, kbDuration)
              [] code = "ArrowUp" ->
                     VolumeChangeStep(adjustedVolume(VolumeState, VOLUME_STEP))
              [] code = "ArrowDown" ->
                     VolumeChangeStep(adjustedVolume(VolumeState, 0 - VOLUME_STEP))
              [] code = "KeyM" -> ToggleMuteStep
              [] OTHER -> UNCHANGED vars

----------------------------------------------------------------------------
(* Basic player (src/src/components/AudioPlayer.tsx) *)

basicFrame ==
    UNCHANGED <<pageState, listenerState, propState, hostState, throttleState, lastChosenVolume, playbackRate, volume, isMuted,
                isLoading, error, isDragging, previousVolume, kbDuration,
                audioRate, audioVolume>>

basicHandleLoadedMetadata ==
    /\ variant = "basic"
    /\ audioReady = "empty"
    /\ audioReady' = "ready"
    /\ audioTime' = Min(audioTime, SourceDuration)
    /\ duration' = SourceDuration
    /\ UNCHANGED <<isPlaying, currentTime, activeTopicIndex, audioPaused,
                   pendingPlays>>
    /\ lastOp' = "handleLoadedMetadata"
    /\ basicFrame

\* the element fails; the basic player registers no 'error' listener
basicAdapterError ==
    /\ variant = "basic"
    /\ audioReady # "failed"
    /\ audioReady' = "failed"
    /\ UNCHANGED <<isPlaying, currentTime, duration, activeTopicIndex,
                   audioTime, audioPaused, pendingPlays>>
    /\ lastOp' = "error"
    /\ basicFrame

basicHandleTimeUpdate ==
    /\ variant = "basic"
    /\ currentTime' = audioTime
    /\ activeTopicIndex' = activeTopicIndexOf(topics, audioTime)
    /\ UNCHANGED <<isPlaying, duration, audioTime, audioPaused, audioReady,
                   pendingPlays>>
    /\ lastOp' = "handleTimeUpdate"
    /\ basicFrame

basicHandleEnded ==
    /\ variant = "basic"
    /\ audioReady = "ready" /\ ~audioPaused /\ audioTime = SourceDuration
    /\ audioPaused' = TRUE
    /\ isPlaying' = FALSE
    /\ UNCHANGED <<currentTime, duration, activeTopicIndex, audioTime,
                   audioReady, pendingPlays>>
    /\ lastOp' = "handleEnded"
    /\ basicFrame

\* togglePlayPause: the promise of play() is dropped
basicTogglePlayPause(allowed) ==
    /\ variant = "basic"
    /\ IF isPlaying
       THEN /\ audioPaused' = TRUE
            /\ UNCHANGED audioTime
       ELSE IF playAccepted(allowed)
       THEN /\ audioPaused' = FALSE
            /\ audioTime' = positionAfterPlay(audioTime)
       ELSE UNCHANGED <<audioPaused, audioTime>>
    /\ isPlaying' = ~isPlaying
    /\ UNCHANGED <<currentTime, duration, activeTopicIndex, audioReady,
                   pendingPlays>>
    /\ lastOp' = "togglePlayPause"
    /\ basicFrame

\* handleProgressClick: a click inside the track, percentage not clamped
basicHandleProgressClick(clickX) ==
    /\ variant = "basic"
    /\ audioTime' = adapterSeek((clickX * duration) \div TrackWidth)
    /\ currentTime' = (clickX * duration) \div TrackWidth
    /\ UNCHANGED <<isPlaying, duration, activeTopicIndex, audioPaused,
                   audioReady, pendingPlays>>
    /\ lastOp' = "handleProgressClick"
    /\ basicFrame

basicHandleTopicMarkerClick(timestamp, allowed) ==
    /\ variant = "basic"
    /\ currentTime' = timestamp
    /\ IF ~isPlaying /\ playAccepted(allowed)
       THEN /\ audioTime' = positionAfterPlay(adapterSeek(timestamp))
            /\ audioPaused' = FALSE
       ELSE /\ audioTime' = adapterSeek(timestamp)
            /\ UNCHANGED audioPaused
    /\ isPlaying' = TRUE
    /\ UNCHANGED <<duration, activeTopicIndex, audioReady, pendingPlays>>
    /\ lastOp' = "handleTopicMarkerClick"
    /\ basicFrame

----------------------------------------------------------------------------
(* Next-state relations *)

TopicStamps == {topics[i].timestamp : i \in 1..Len(topics)}
SliderLevels == 0..VOLUME_MAX

\* volume, mute and playback-rate controls
NextControls ==
    \/ \E level \in SliderLevels : SliderChange(level)
    \/ MuteButton
    \/ \E code \in {"ArrowUp", "ArrowDown", "KeyM"} :
          handleKeyPress(code, FALSE, TRUE)
    \/ handlePlaybackRateChange
    \/ \E level \in SliderLevels : BasicSliderChange(level)
    \/ BasicMuteButton
    \/ basicHandlePlaybackRateChange

\* loading, playback, seeking and scrubbing
NextTransport ==
    \/ AdapterAdvance
    \/ handleLoadedMetadata
    \/ \E code \in MediaErrorCodes : handleError(code)
    \/ handleTimeUpdate
    \/ handleEnded
    \/ \E allowed \in BOOLEAN : PlayButton(allowed)
    \/ SettlePlay
    \/ \E seconds \in {0 - SKIP_DURATION, SKIP_DURATION} : SkipButton(seconds)
    \/ \E clickX \in PointerXs : handleProgressInteraction(clickX)
    \/ \E clickX \in PointerXs : handleMouseMove(clickX)
    \/ handleMouseUp
    \/ \E ts \in TopicStamps, allowed \in BOOLEAN :
          handleTopicMarkerClick(ts, allowed)
    \/ \E code \in {"Space", "ArrowLeft", "ArrowRight"}, allowed \in BOOLEAN :
          handleKeyPress(code, FALSE, allowed)
    \/ basicHandleLoadedMetadata
    \/ basicAdapterError
    \/ basicHandleTimeUpdate
    \/ basicHandleEnded
    \/ \E allowed \in BOOLEAN : basicTogglePlayPause(allowed)
    \/ \E clickX \in 0..TrackWidth : basicHandleProgressClick(clickX)
    \/ \E ts \in TopicStamps, allowed \in BOOLEAN :
          basicHandleTopicMarkerClick(ts, allowed)

\* playback with time propagation to ResultsDisplay
NextPropagation ==
    \/ handleLoadedMetadata
    \/ handleTimeUpdate
    \/ \E clickX \in {0, TrackWidth} : handleProgressInteraction(clickX)
    \/ handleMouseUp
    \/ \E i \in 1..MaxTimers : TimerFire(i)
    \/ ClockTick
    \/ HostRender

\* loading, failure, retry and source switch
NextLoading ==
    \/ handleLoadStart
    \/ handleLoadedMetadata
    \/ handleLoadedData
    \/ handleCanPlay
    \/ handlePlaying
    \/ \E code \in ErrorEvents : handleError(code)
    \/ Retry
    \/ \E allowed \in BOOLEAN : PlayButton(allowed)
    \/ \E ts \in TopicStamps, allowed \in BOOLEAN :
          handleTopicMarkerClick(ts, allowed)
    \/ SettlePlay
    \/ AdapterAdvance
    \/ handleTimeUpdate
    \/ \E resolved \in BOOLEAN : handleNewFile(resolved)

\* keyboard shortcuts during playback, typed into the page or a text field
NextKeyboard ==
    \/ handleLoadedMetadata
    \/ AdapterAdvance
    \/ handleTimeUpdate
    \/ SettlePlay
    \/ handleEnded
    \/ \E code \in KeyCodes, inInput \in BOOLEAN, allowed \in BOOLEAN :
          handleKeyPress(code, inInput, allowed)

----------------------------------------------------------------------------
(* Index page: file selection and the processing pipeline *)

isValidType(file) ==
    \/ \E type \in validTypes : includes(file.type, type)
    \/ \E ext \in validExtensions : endsWith(toLowerCase(file.name), ext)

validateFileBySizeOnly(file) == file.size <= maxSize

validateFile(file) ==
    IF file.size > maxSize THEN FALSE ELSE isValidType(file)

\* title of the toast validateFile shows before it returns false
rejectionToast(file) ==
    IF file.size > maxSize THEN "File too large" ELSE "Invalid file type"

\* render conditions of Index
DropZoneAlwaysRendered == pageOpen

DropZoneRendered == pageOpen /\ stage = "idle" /\ results = Null

ProcessingStateRendered == pageOpen /\ stage # "idle" /\ results = Null

ResultsDisplayRendered == pageOpen /\ results # Null

\* replies of supabase.functions.invoke: { data, error }, with data?.text
\* and data?.summary as read by the handler
TranscribeReplies ==
    [error : BOOLEAN, text : {Undefined, "", "transcript"}]

\* a summary text is kept with the topic lines parsedTopics finds in it
SummaryTexts ==
    {[text |-> Undefined, topics |-> <<>>], [text |-> "", topics |-> <<>>],
     [text |-> "summary", topics |-> <<>>],
     [text |-> "summary", topics |-> PlayerTopics]}

SummarizeReplies == [error : BOOLEAN, summary : SummaryTexts]

\* !value for a string read through ?.
falsy(text) == text = Undefined \/ text = ""

\* URL.createObjectURL: a URL not in use
createObjectURL(live) == CHOOSE u \in 1..MaxUrls : u \notin live

\* the player, its element and ResultsDisplay are not touched
playerIdle ==
    UNCHANGED <<propState, listenerState, playerState, adapterState,
                hostState, throttleState, lastChosenVolume>>

\* DropZone handleDrop / handleFileInput -> handleFileSelect, up to
\* reader.readAsDataURL(file)
handleFileSelect(file) ==
    /\ DropZoneRendered
    /\ IF ~validateFile(file)
       THEN /\ toast' = rejectionToast(file)
            /\ UNCHANGED <<stage, results, audioFile, transcriptionData,
                           calls>>
       ELSE /\ stage' = "uploading"
            /\ results' = Null
            /\ audioFile' = Some(file)
            /\ transcriptionData' = Undefined
            /\ calls' = <<>>
            /\ UNCHANGED toast
    /\ lastOp' = "handleFileSelect"
    /\ UNCHANGED <<liveUrls, pageOpen>>
    /\ playerIdle

\* reader.onload up to the first await: the transcribe-audio call is made
readerOnload ==
    /\ pageOpen
    /\ stage = "uploading"
    /\ stage' = "transcribing"
    /\ calls' = Append(calls, "transcribe-audio")
    /\ lastOp' = "reader.onload"
    /\ UNCHANGED <<results, audioFile, liveUrls, transcriptionData, toast,
                   pageOpen>>
    /\ playerIdle

\* reader.onerror
readerOnerror ==
    /\ pageOpen
    /\ stage = "uploading"
    /\ stage' = "idle"
    /\ toast' = "Error"
    /\ lastOp' = "reader.onerror"
    /\ UNCHANGED <<results, audioFile, liveUrls, transcriptionData, calls,
                   pageOpen>>
    /\ playerIdle

transcribeReturnsUnchecked(reply) ==
    /\ pageOpen
    /\ stage = "transcribing"
    /\ transcriptionData' = reply.text
    /\ stage' = "summarizing"
    /\ calls' = Append(calls, "summarize-text")
    /\ UNCHANGED toast
    /\ lastOp' = "transcribe-audio"
    /\ UNCHANGED <<results, audioFile, liveUrls, pageOpen>>
    /\ playerIdle

\* the transcribe-audio call returns: the handler resumes up to the second
\* await, or throws into its catch
transcribeReturns(reply) ==
    /\ pageOpen
    /\ stage = "transcribing"
    /\ IF reply.error \/ falsy(reply.text)
       THEN /\ stage' = "idle"
            /\ toast' = "Processing failed"
            /\ UNCHANGED <<transcriptionData, calls>>
       ELSE /\ transcriptionData' = reply.text
            /\ stage' = "summarizing"
            /\ calls' = Append(calls, "summarize-text")
            /\ UNCHANGED toast
    /\ lastOp' = "transcribe-audio"
    /\ UNCHANGED <<results, audioFile, liveUrls, pageOpen>>
    /\ playerIdle

\* what the mount of ResultsDisplay and of the player changes
mountResults(summary) ==
    /\ topics' = validTopics(summary.topics, 0)
    /\ activeTopicIndex' = activeTopicIndexOf(topics', 0)
    /\ LET s == IF PlayerMountedIn(results', topics')
                THEN mountEffects(Unsubscribed) ELSE Unsubscribed
       IN  /\ listeners' = s.l
           /\ cleanups' = s.c
    /\ UNCHANGED <<variant, words, onTimeUpdate, isPlaying, currentTime,
                   duration, playbackRate, volume, isMuted, isLoading, error,
                   isDragging, previousVolume, kbDuration, adapterState,
                   hostState, throttleState, lastChosenVolume>>

\* what the unmount of ResultsDisplay and of the player changes
unmountResults ==
    /\ topics' = <<>>
    /\ activeTopicIndex' = activeTopicIndexOf(<<>>, 0)
    /\ LET s == unmountEffects([l |-> listeners, c |-> cleanups])
       IN  /\ listeners' = s.l
           /\ cleanups' = s.c
    /\ UNCHANGED <<variant, words, onTimeUpdate, isPlaying, currentTime,
                   duration, playbackRate, volume, isMuted, isLoading, error,
                   isDragging, previousVolume, kbDuration, adapterState,
                   hostState, throttleState, lastChosenVolume>>

summarizeReturnsFailureKeepsUrl(reply) ==
    /\ pageOpen
    /\ stage = "summarizing"
    /\ Cardinality(liveUrls) < MaxUrls
    /\ liveUrls' = liveUrls \cup {createObjectURL(liveUrls)}
    /\ IF reply.error \/ falsy(reply.summary.text)
       THEN /\ stage' = "idle"
            /\ toast' = "Processing failed"
            /\ transcriptionData' = Undefined
            /\ UNCHANGED results
            /\ playerIdle
       ELSE /\ results' = Some([summary |-> reply.summary,
                                transcription |-> transcriptionData,
                                audioUrl |-> createObjectURL(liveUrls)])
            /\ stage' = "idle"
            /\ toast' = "Success!"
            /\ transcriptionData' = Undefined
            /\ mountResults(reply.summary)
    /\ lastOp' = "summarize-text"
    /\ UNCHANGED <<audioFile, calls, pageOpen>>

\* the summarize-text call returns: the handler resumes to its end, or throws
\* into its catch
summarizeReturns(reply) ==
    /\ pageOpen
    /\ stage = "summarizing"
    /\ IF reply.error \/ falsy(reply.summary.text)
       THEN /\ stage' = "idle"
            /\ toast' = "Processing failed"
            /\ transcriptionData' = Undefined
            /\ UNCHANGED <<results, liveUrls>>
            /\ playerIdle
       ELSE /\ Cardinality(liveUrls) < MaxUrls
            /\ liveUrls' = liveUrls \cup {createObjectURL(liveUrls)}
            /\ results' = Some([summary |-> reply.summary,
                                transcription |-> transcriptionData,
                                audioUrl |-> createObjectURL(liveUrls)])
            /\ stage' = "idle"
            /\ toast' = "Success!"
            /\ transcriptionData' = Undefined
            /\ mountResults(reply.summary)
    /\ lastOp' = "summarize-text"
    /\ UNCHANGED <<audioFile, calls, pageOpen>>

\* the button of ResultsDisplay: Index handleNewFile
onNewFile ==
    /\ ResultsDisplayRendered
    /\ liveUrls' = IF results[1].audioUrl # NoUrl
                   THEN liveUrls \ {results[1].audioUrl} ELSE liveUrls
    /\ results' = Null
    /\ audioFile' = Null
    /\ stage' = "idle"
    /\ unmountResults
    /\ lastOp' = "onNewFile"
    /\ UNCHANGED <<transcriptionData, calls, toast, pageOpen>>

\* the page is left: Index unmounts; it registers no cleanup
sessionEnds ==
    /\ pageOpen
    /\ pageOpen' = FALSE
    /\ lastOp' = "sessionEnd"
    /\ UNCHANGED <<stage, results, audioFile, liveUrls, transcriptionData,
                   calls, toast>>
    /\ IF results # Null THEN unmountResults ELSE playerIdle

NextPage ==
    \/ \E file \in Files : handleFileSelect(file)
    \/ readerOnload
    \/ readerOnerror
    \/ \E reply \in TranscribeReplies : transcribeReturns(reply)
    \/ \E reply \in SummarizeReplies : summarizeReturns(reply)
    \/ onNewFile
    \/ sessionEnds

\* the page as first rendered: no file selected yet, nothing mounted below it
InitPage ==
    /\ variant = "enhanced"
    /\ topics = <<>>
    /\ words = <<>>
    /\ onTimeUpdate = "handleAudioTimeUpdate"
    /\ stage = "idle"
    /\ results = Null
    /\ audioFile = Null
    /\ liveUrls = {}
    /\ transcriptionData = Undefined
    /\ calls = <<>>
    /\ toast = "none"
    /\ pageOpen = TRUE
    /\ MountedPlayer
    /\ FreshAdapter
    /\ FreshHost
    /\ FreshThrottle
    /\ NoHistory

SpecPage == InitPage /\ [][NextPage]_vars

\* every started read and every service call returns
SpecPageFair ==
    /\ SpecPage
    /\ WF_vars(readerOnload \/ readerOnerror)
    /\ WF_vars(\E reply \in TranscribeReplies : transcribeReturns(reply))
    /\ WF_vars(\E reply \in SummarizeReplies : summarizeReturns(reply))

----------------------------------------------------------------------------
(* Mounting of the player under ResultsDisplay *)

\* timestamps of parsed topics: inside the audio, at its end and past it
ParsedStamps == {0, SourceDuration - 1, SourceDuration, SourceDuration + 1}

ParsedTopicSeqs ==
    UNION {[1..n -> [timestamp : ParsedStamps]] : n \in 0..MaxTopics}

\* results of a processed file with any parsed topics; the player is mounted
\* when there is at least one
InitMounting ==
    /\ variant = "enhanced"
    /\ topics \in ParsedTopicSeqs
    /\ words = <<>>
    /\ onTimeUpdate = "none"
    /\ ResultsShown
    /\ MountedPlayer
    /\ FreshAdapter
    /\ FreshHost
    /\ FreshThrottle
    /\ NoHistory

\* the handlers of a player exist while it is mounted
NextMounting ==
    \/ PlayerMounted /\ handleLoadedMetadata
    \/ PlayerMounted /\ \E clickX \in {0, TrackWidth} :
                           handleProgressInteraction(clickX)
    \/ PlayerMounted /\ \E clickX \in {0, TrackWidth} : handleMouseMove(clickX)
    \/ PlayerMounted /\ handleMouseUp
    \/ PlayerMounted /\ PlayButton(TRUE)
    \/ PlayerMounted /\ SettlePlay

SpecMounting == InitMounting /\ [][NextMounting]_vars

Next ==
    NextControls \/ NextTransport \/ NextPropagation \/ NextLoading
       \/ NextKeyboard \/ NextPage \/ NextMounting

SpecControls == Init /\ [][NextControls]_vars
\* the player mounted without an onTimeUpdate prop
InitTransport ==
    Init /\ onTimeUpdate = "none"

SpecTransport == InitTransport /\ [][NextTransport]_vars

InitLoading ==
    InitTransport /\ variant = "enhanced"

SpecLoading == InitLoading /\ [][NextLoading]_vars
SpecKeyboard == InitLoading /\ [][NextKeyboard]_vars
InitPropagation ==
    Init /\ variant = "enhanced" /\ onTimeUpdate = "handleAudioTimeUpdate"

SpecPropagation == InitPropagation /\ [][NextPropagation]_vars

\* a timeout that is due runs, and time passes
SpecPropagationFair ==
    /\ SpecPropagation
    /\ WF_vars(ClockTick)
    /\ WF_vars(\E i \in 1..MaxTimers : TimerFire(i))
Spec == Init /\ [][Next]_vars

----------------------------------------------------------------------------
(* Properties *)

\* number of entries whose time is at or before t, minus one: the index of
\* the last such entry in a sorted sequence, -1 when there is none
LastAtOrBefore(stamps, t) ==
    Cardinality({j \in 1..Len(stamps) : stamps[j] <= t}) - 1

TopicStampsOf(T) == [i \in 1..Len(T) |-> T[i].timestamp]
WordStartsOf(W) == [i \in 1..Len(W) |-> W[i].start]

\* the 0-based indexes i with stamps[i] <= t and (i last or t < stamps[i+1])
ActiveSet(stamps, t) ==
    {i \in 0..(Len(stamps) - 1) :
        /\ stamps[i + 1] <= t
        /\ (i = Len(stamps) - 1 \/ t < stamps[i + 2])}

IndexContract(stamps, t, index) ==
    /\ ActiveSet(stamps, t) = IF index = NULL_INDEX THEN {} ELSE {index}
    /\ (index = NULL_INDEX) <=> (Len(stamps) = 0 \/ t < stamps[1])
    /\ (Len(stamps) > 0 /\ t >= stamps[Len(stamps)]) => index = Len(stamps) - 1
    /\ index = LastAtOrBefore(stamps, t)

\* C1: for every sorted topic sequence and every time t, the active topic
\* index the player computed is the unique i with T[i].timestamp <= t and
\* (i last or t < T[i+1].timestamp); it is none when T is empty or t is
\* before the first timestamp, and the last index for every t at or after
\* the last timestamp.
C1_ActiveTopicContract ==
    (variant = "enhanced" \/ lastOp = "render") =>
        IndexContract(TopicStampsOf(topics), currentTime, activeTopicIndex)

\* C1 witness: three distinct topics, t exactly on the second timestamp
C1_Witness ==
    /\ lastOp = "render"
    /\ Len(topics) = 3
    /\ topics[1].timestamp < topics[2].timestamp
    /\ topics[2].timestamp < topics[3].timestamp
    /\ currentTime = topics[2].timestamp
    /\ activeTopicIndex = 1

\* C2: the word index obeys the same contract on the start values:
\* getCurrentWordIndex is the unique i with W[i].start <= t and (i last or
\* t < W[i+1].start), -1 when W is empty or t < W[0].start; it is fixed by
\* the starts and t alone, whatever the ends are.
C2_WordIndexContract ==
    IndexContract(WordStartsOf(words), currentAudioTime, currentWordIndex)

\* C2 witness: t lies after the end of the first word and before the start
\* of the second, and the first word is still the current one
C2_Witness ==
    /\ lastOp = "render"
    /\ Len(words) = 2
    /\ words[1].end < currentAudioTime
    /\ currentAudioTime < words[2].start
    /\ currentWordIndex = 0

\* C3: togglePlayPause never flips isPlaying optimistically: from not
\* playing it leaves isPlaying false in the same step, isPlaying becomes
\* true only when a pending play promise resolves, and from playing it
\* pauses the element and clears isPlaying in the same step.
C3_NoOptimisticPlay ==
    [][/\ \A allowed \in BOOLEAN :
            LET toggled == \/ PlayButton(allowed)
                           \/ handleKeyPress("Space", FALSE, allowed)
                           \/ basicTogglePlayPause(allowed)
            IN  /\ (~isPlaying /\ toggled) => ~isPlaying'
                /\ (isPlaying /\ toggled) => (~isPlaying' /\ audioPaused')
       /\ (~isPlaying /\ isPlaying') =>
            /\ pendingPlays # <<>>
            /\ Head(pendingPlays).fate = "ok"
            /\ pendingPlays' = Tail(pendingPlays)]_vars

SkipDeltas == {0 - SKIP_DURATION, SKIP_DURATION}

C5_SkipFrame ==
    [][lastOp' = "skip" =>
          UNCHANGED <<isPlaying, playbackRate, volume, isMuted,
                      previousVolume, isLoading, error, isDragging,
                      audioPaused, audioRate, audioVolume>>]_vars

\* C5 witness: a skip ran during playback and playback goes on
C5_Witness ==
    /\ lastOp = "skip"
    /\ isPlaying
    /\ ~audioPaused
    /\ currentTime > 0
    /\ currentTime < duration

RECURSIVE RateAfter(_, _)
\* the rate after k rate-change steps starting from rate
RateAfter(k, rate) ==
    IF k = 0 THEN rate ELSE RateAfter(k - 1, nextRate(PLAYBACK_RATES, rate))

\* C6: rate cycling is closed with wrap-around: one handlePlaybackRateChange
\* moves from list element i to element i+1 (from the last back to the
\* first) and sets the element's rate and the state's rate to that value;
\* len(list) steps in a row return to the starting rate.
C6_RateCycle ==
    /\ [](variant = "enhanced" =>
            RateAfter(Len(PLAYBACK_RATES), playbackRate) = playbackRate)
    /\ [][(variant = "enhanced" /\ lastOp' = "handlePlaybackRateChange") =>
            /\ \E i \in 1..Len(PLAYBACK_RATES) :
                  /\ PLAYBACK_RATES[i] = playbackRate
                  /\ playbackRate' = PLAYBACK_RATES[(i % Len(PLAYBACK_RATES)) + 1]
            /\ audioRate' = playbackRate']_vars

\* C6 witness: a rate change wrapped from the last rate back to the first
C6_Witness ==
    /\ variant = "enhanced"
    /\ lastOp = "handlePlaybackRateChange"
    /\ playbackRate = PLAYBACK_RATES[1]
    /\ audioRate = PLAYBACK_RATES[1]

\* C7: in every reachable state of every player variant playbackRate is one
\* of 1, 1.25, 1.5, 1.75, 2, 2.5, 3.
C7_RateInList ==
    playbackRate \in {PLAYBACK_RATES[i] : i \in 1..Len(PLAYBACK_RATES)}

\* C8: handleVolumeChange(0) mutes and keeps previousVolume at its last
\* non-zero value; handleVolumeChange(level > 0) unmutes and sets
\* previousVolume to level; so from an unmuted volume v > 0,
\* handleVolumeChange(0) gives muted with previousVolume = v and a following
\* toggleMute gives unmuted with volume = v.
C8_VolumeChangeContract ==
    variant = "enhanced" =>
       /\ \A level \in SliderLevels :
             LET r == handleVolumeChange(VolumeState, level)
             IN  IF level = 0
                 THEN r.isMuted /\ r.previousVolume = lastChosenVolume
                 ELSE ~r.isMuted /\ r.previousVolume = level
       /\ (~isMuted /\ volume > 0) =>
             LET m == handleVolumeChange(VolumeState, 0)
                 u == toggleMute(m)
             IN  /\ m.isMuted /\ m.previousVolume = volume
                 /\ ~u.isMuted /\ u.volume = volume /\ u.audioVolume = volume
       /\ lastOp = "handleVolumeChange" =>
             IF volume = 0
             THEN isMuted /\ previousVolume = lastChosenVolume
             ELSE ~isMuted /\ previousVolume = volume

\* C8 witness: the volume was 0.8 and handleVolumeChange(0) has run
C8_Witness ==
    /\ variant = "enhanced"
    /\ lastOp = "handleVolumeChange"
    /\ isMuted
    /\ volume = 0
    /\ previousVolume = 8

\* toggleMute of the mounted variant
mountedToggleMute(v) ==
    IF variant = "enhanced" THEN toggleMute(v) ELSE basicToggleMute(v)

\* C9: from every reachable unmuted state with volume v > 0, toggleMute
\* followed by toggleMute gives isMuted false with the state's volume and
\* the element's volume both v again; in between the element is silent.
C9_MuteRoundTrip ==
    (~isMuted /\ volume > 0) =>
       LET once == mountedToggleMute(VolumeState)
           twice == mountedToggleMute(once)
       IN  /\ once.isMuted /\ once.audioVolume = 0
           /\ ~twice.isMuted
           /\ twice.volume = volume
           /\ twice.audioVolume = volume

\* C9 witness: an unmute has restored a volume that is not the default
C9_Witness ==
    /\ lastOp = "toggleMute"
    /\ ~isMuted
    /\ volume = 3
    /\ audioVolume = 3

\* C10: after any sequence of volume changes, mute toggles and volume/mute
\* keys, previousVolume is greater than 0 and is the last non-zero volume
\* the user chose, so unmuting restores a non-zero volume.
C10_PreviousVolumePositive ==
    variant = "enhanced" =>
       /\ previousVolume > 0
       /\ previousVolume = lastChosenVolume
       /\ isMuted => toggleMute(VolumeState).volume > 0

\* C10 witness: ArrowDown brought the volume from 0.1 to 0
C10_Witness ==
    /\ variant = "enhanced"
    /\ lastOp = "handleVolumeChange"
    /\ isMuted
    /\ volume = 0
    /\ previousVolume = VOLUME_STEP

\* C11: in every reachable state a muted player has adapter volume 0 and an
\* unmuted player has the adapter volume equal to the volume in state.
C11_MuteMatchesAdapter ==
    /\ isMuted => audioVolume = 0
    /\ ~isMuted => audioVolume = volume

C13_DeliveriesSpaced ==
    lastDelivery.gap < 0 \/ lastDelivery.gap >= THROTTLE_DELAY

\* C14: every value passed to onTimeUpdate is the most recent tick received
\* at the moment of delivery, and no older tick is delivered after a newer
\* one has been delivered.
C14_NoStaleDelivery ==
    lastDelivery.latest /\ ~lastDelivery.stale

LatestPending == {i \in 1..Len(timers) : timers[i].latest}

\* C15: the last tick received outside a drag is never dropped and never
\* delivered twice (it is either delivered or waiting in exactly one
\* timeout), every timeout waits no longer than the delay, a tick that is
\* waiting is eventually delivered or overtaken by a delivered newer one
\* whatever further ticks arrive, and once ticks stop every timeout has run
\* and the last tick has been delivered.
C15_FinalFlush ==
    /\ [](/\ latestDelivered <=> LatestPending = {}
          /\ Cardinality(LatestPending) <= 1
          /\ \A i \in 1..Len(timers) : timers[i].left \in 0..THROTTLE_DELAY)
    /\ (~latestDelivered ~> latestDelivered)
    /\ (<>[](lastOp # "handleTimeUpdate")
          => <>[](timers = <<>> /\ latestDelivered))

\* C15 witness: the timeout holding the last tick ran and nothing is waiting
C15_Witness ==
    /\ lastOp = "timeout"
    /\ lastDelivery.latest
    /\ latestDelivered
    /\ timers = <<>>
    /\ ~isDragging

\* C16: while isDragging, an adapter time event (playback advancing, or
\* 'timeupdate') leaves currentTime unchanged; mouseup / touchend clears
\* isDragging, and a 'timeupdate' outside a drag sets currentTime to the
\* adapter's position.
C16_DragSuppression ==
    [][/\ (isDragging /\ (handleTimeUpdate \/ AdapterAdvance))
            => (currentTime' = currentTime /\ isDragging')
       /\ handleMouseUp => ~isDragging'
       /\ (~isDragging /\ handleTimeUpdate) => currentTime' = audioTime]_vars

\* C16 witness: a 'timeupdate' arrived during a drag while playback had moved
\* on, and the dragged position was kept
C16_Witness ==
    /\ lastOp = "handleTimeUpdate"
    /\ isDragging
    /\ isPlaying
    /\ currentTime # audioTime

C18_PositionWithinDuration ==
    (variant = "enhanced" /\ duration > 0) =>
       (0 <= currentTime /\ currentTime <= duration)

\* C19: while duration is 0, a drag begin or move, a skip and a topic-marker
\* click leave currentTime at 0.
C19_NoSeekBeforeDuration ==
    [][(variant = "enhanced" /\ duration = 0 /\ currentTime = 0
          /\ lastOp' \in {"handleProgressInteraction", "handleMouseMove",
                          "skip", "handleTopicMarkerClick"})
         => currentTime' = 0]_vars

\* C20: the same absolute seek issued twice in succession (the same track
\* position by drag begin or move, the same topic timestamp by marker click)
\* leaves currentTime at clamp(x, 0, duration).
C20_SeekIdempotent ==
    [][/\ \A ts \in TopicStamps, allowed \in BOOLEAN :
            (/\ lastOp = "handleTopicMarkerClick"
             /\ currentTime = ts
             /\ handleTopicMarkerClick(ts, allowed))
               => currentTime' = Max(0, Min(duration, ts))
       /\ \A clickX \in PointerXs :
            (/\ lastOp \in {"handleProgressInteraction", "handleMouseMove"}
             /\ currentTime = progressTime(clickX)
             /\ handleMouseMove(clickX))
               => currentTime' = Max(0, Min(duration, progressTime(clickX)))
      ]_vars

\* C21: a topic click with timestamp ts sets currentTime and the adapter
\* position to ts and calls play() exactly when isPlaying is false; a play()
\* that is accepted leaves a pending promise whose resolution sets isPlaying;
\* with isPlaying true the element is left as it is.  Nothing else of the
\* player or host state changes, and the result does not depend on the
\* position before the click, so the click on a track marker (which follows a
\* mousedown and mouseup on the track at the marker) and the click on a
\* segment entry end in the same state.
C21_JumpToTopic ==
    [][/\ \A ts \in TopicStamps, allowed \in BOOLEAN :
            handleTopicMarkerClick(ts, allowed) =>
               /\ currentTime' = ts
               /\ audioTime' = ts
               /\ activeTopicIndex' = activeTopicIndexOf(topics, ts)
               /\ (~isPlaying /\ playAccepted(allowed)) =>
                     /\ ~audioPaused'
                     /\ pendingPlays' =
                           Append(pendingPlays,
                                  [origin |-> "topic", fate |-> "ok"])
               /\ (isPlaying \/ ~playAccepted(allowed)) =>
                     UNCHANGED <<audioPaused, pendingPlays>>
               /\ UNCHANGED <<isPlaying, duration, playbackRate, volume,
                              isMuted, isLoading, error, isDragging,
                              previousVolume, kbDuration, audioRate,
                              audioVolume, audioReady, hostState>>
       /\ (/\ SettlePlay
           /\ Head(pendingPlays).origin = "topic"
           /\ Head(pendingPlays).fate = "ok") => isPlaying'
      ]_vars

\* a click on the second topic of a loaded, paused player has started play()
C21_Witness ==
    /\ lastOp = "handleTopicMarkerClick"
    /\ duration > 0
    /\ currentTime = 2 /\ audioTime = 2
    /\ ~isPlaying /\ ~audioPaused
    /\ pendingPlays # <<>>
    /\ pendingPlays[Len(pendingPlays)] = [origin |-> "topic", fate |-> "ok"]

\* the element has played to the end and the player shows it paused
EndedPaused ==
    /\ audioReady = "ready"
    /\ audioPaused
    /\ audioTime = SourceDuration
    /\ ~isPlaying

\* steps that are neither a seek nor a play command of the user
Notifications ==
    {"playback", "handleLoadedMetadata", "handleError", "handleTimeUpdate",
     "handleEnded", "playPromise", "handleMouseUp"}

\* C22: on 'ended' isPlaying becomes false, currentTime keeps its value and
\* the element stays at the end position; no other field of the player or
\* host state changes; from then on only a seek or play command ends the
\* ended/paused state.
C22_EndedKeepsPosition ==
    [][/\ handleEnded =>
            /\ ~isPlaying'
            /\ currentTime' = currentTime
            /\ audioTime' = SourceDuration
            /\ UNCHANGED <<duration, playbackRate, volume, isMuted, isLoading,
                           error, isDragging, previousVolume,
                           activeTopicIndex, kbDuration, hostState>>
       /\ (/\ variant = "enhanced"
           /\ EndedPaused
           /\ lastOp' \in Notifications
           /\ audioReady' = "ready") => EndedPaused'
      ]_vars

\* playback has run to the end and 'ended' was handled
C22_Witness ==
    /\ lastOp = "handleEnded"
    /\ EndedPaused
    /\ currentTime = duration
    /\ duration = SourceDuration

\* rejection names that togglePlayPause's catch does not report
SwallowedRejections == {"AbortError", "NotAllowedError"}

\* play() is called by this step and rejects at once with `name`
RejectedAtOnce(allowed, name) ==
    ~isPlaying /\ ~playAccepted(allowed) /\ playRejection(allowed) = name

\* the callback of a play() promise rejected with `name` runs in this step
RejectionCallback(origin, name) ==
    /\ SettlePlay
    /\ Head(pendingPlays).origin = origin
    /\ Head(pendingPlays).fate = name

\* C25: a play() rejection with AbortError or NotAllowedError does not set
\* the error state, and isPlaying is false after its callback.
C25_PolicyRejectionSwallowed ==
    [][\A name \in SwallowedRejections :
          /\ \A origin \in {"toggle", "topic"} :
                RejectionCallback(origin, name) =>
                   (error' = error /\ ~isPlaying')
          /\ \A allowed \in BOOLEAN :
                (/\ RejectedAtOnce(allowed, name)
                 /\ \/ PlayButton(allowed)
                    \/ \E ts \in TopicStamps :
                          handleTopicMarkerClick(ts, allowed))
                  => (error' = error /\ ~isPlaying')
      ]_vars

\* a pending play() was aborted by pause() and its callback has run while an
\* error message from an earlier failure is absent
C25_Witness ==
    /\ lastOp = "playPromise"
    /\ audioReady = "ready"
    /\ audioPaused
    /\ ~isPlaying
    /\ error = "none"
    /\ pendingPlays = <<>>

\* C26: a play() rejection with any other name sets the error state to the
\* playback failure and leaves isPlaying false, whether play() was called by
\* togglePlayPause or by a topic click.
C26_GenuineFailureSurfaced ==
    [][/\ \A origin \in {"toggle", "topic"} :
            RejectionCallback(origin, "NotSupportedError") =>
               (error' = "Playback failed." /\ ~isPlaying')
       /\ \A allowed \in BOOLEAN :
            (/\ RejectedAtOnce(allowed, "NotSupportedError")
             /\ \/ PlayButton(allowed)
                \/ \E ts \in TopicStamps :
                      handleTopicMarkerClick(ts, allowed))
              => (error' = "Playback failed." /\ ~isPlaying')
      ]_vars

\* C23: isLoading is true while a load that has started has given no signal
\* yet, and false in every state after metadata, data, can-play, playing or
\* a failure of the element, until the next load start.
C23_LoadingIndicator ==
    variant = "enhanced" =>
       /\ audioReady = "empty" => isLoading
       /\ audioReady \in {"ready", "failed"} => ~isLoading

\* the first load has failed and the indicator is off
C23_Witness ==
    /\ lastOp = "handleError"
    /\ audioReady = "failed"
    /\ duration = 0
    /\ ~isLoading
    /\ error # "none"

\* C24: every 'error' notification, with any MediaError code or with none,
\* sets the error state to a message and isLoading to false.
C24_EveryErrorReported ==
    [][\A code \in ErrorEvents :
          handleError(code) => (error' # "none" /\ ~isLoading')]_vars

\* the player is loaded: metadata known, no error, indicator off
Loaded ==
    /\ audioReady = "ready"
    /\ duration > 0
    /\ error = "none"
    /\ ~isLoading

\* C27: Retry clears the error and calls load() on the element, and leaves
\* the topic and word sequences and the rest of the player state as they
\* are; the load start that follows sets isLoading with no error; metadata
\* of the reloaded source brings the player back to the loaded state.
C27_RetryReloads ==
    [][/\ Retry =>
            /\ error # "none"
            /\ error' = "none"
            /\ audioReady' = "reloading"
            /\ audioPaused'
            /\ UNCHANGED <<topics, words, isPlaying, currentTime, duration,
                           playbackRate, volume, isMuted, isLoading,
                           isDragging, previousVolume, hostState>>
       /\ audioReady = "reloading" =>
            /\ ENABLED handleLoadStart
            /\ audioReady' \in {"reloading", "empty"}
       /\ handleLoadStart =>
            /\ isLoading' /\ error' = "none" /\ audioReady' = "empty"
            /\ UNCHANGED <<topics, words>>
       /\ (audioReady = "empty" /\ handleLoadedMetadata) => Loaded'
      ]_vars

\* a source that had been loaded failed, Retry was pressed and the load has
\* started again
C27_Witness ==
    /\ lastOp = "handleLoadStart"
    /\ audioReady = "empty"
    /\ duration > 0
    /\ isLoading
    /\ error = "none"
    /\ Len(topics) = 2

C29_InputFocusSuppression ==
    [][\A code \in KeyCodes, allowed \in BOOLEAN :
          handleKeyPress(code, TRUE, allowed) =>
             UNCHANGED <<playerState, adapterState, hostState>>]_vars

\* a key was typed into a text field while the audio was playing
C29_Witness ==
    /\ lastOp = "handleKeyPress"
    /\ isPlaying /\ ~audioPaused
    /\ audioTime > 0
    /\ volume < VOLUME_MAX

\* C30: in every reachable state a keyboard command leads to the same next
\* state as its control: ArrowLeft / ArrowRight as the skip buttons, Space as
\* the play/pause button, M as the mute button.
C30_KeyboardMatchesControls ==
    [][/\ handleKeyPress("ArrowLeft", FALSE, TRUE) =>
            SkipButton(0 - SKIP_DURATION)
       /\ handleKeyPress("ArrowRight", FALSE, TRUE) =>
            SkipButton(SKIP_DURATION)
       /\ \A allowed \in BOOLEAN :
            handleKeyPress("Space", FALSE, allowed) => PlayButton(allowed)
       /\ handleKeyPress("KeyM", FALSE, TRUE) => MuteButton
      ]_vars

\* handlers that seek
SeekOps ==
    {"handleProgressInteraction", "handleMouseMove", "skip",
     "handleTopicMarkerClick"}

\* C31: after a seek, once no further tick or seek arrives and the throttle's
\* timeouts have run, the time held by ResultsDisplay equals the player's
\* currentTime.  Every seek is taken to be followed by a 'timeupdate' of the
\* element.
C31_LockStep ==
    (/\ <>(lastOp \in SeekOps)
     /\ [](lastOp \in SeekOps => <>(lastOp = "handleTimeUpdate"))
     /\ <>[](lastOp \notin (SeekOps \cup {"handleTimeUpdate"})))
       => <>[](currentAudioTime = currentTime)

\* C40: whenever isPlaying is true the element is playing: it holds a loaded
\* source, has not failed, is not being reloaded, and is not paused or ended.
C40_PlayIndicator ==
    isPlaying => (audioReady = "ready" /\ ~audioPaused)

\* index i (0-based) or none for the sequence of keys K at time t: none, or
\* K[i] <= t and i is last or t < K[i+1]
LocallyActive(K, t, index) ==
    \/ index = NULL_INDEX
    \/ /\ index \in 0..(Len(K) - 1)
       /\ K[index + 1] <= t
       /\ (index + 1 = Len(K) \/ t < K[index + 2])

Unsorted(K) == \E i \in 1..(Len(K) - 1) : K[i] > K[i + 1]

\* C34: for every sequence, sorted or not, with duplicates or empty, and
\* every time, the computed active index is none or an index whose key is at
\* or before the time and whose successor, if any, is after it; computing it
\* always yields a value and leaves the sequence as it was.
C34_IndexTolerant ==
    [][(\E t \in ProbeTimes : RenderAt(t)) =>
         /\ topics' = topics
         /\ words' = words
         /\ LocallyActive([i \in 1..Len(topics) |-> topics[i].timestamp],
                          currentTime', activeTopicIndex')
         /\ LocallyActive([i \in 1..Len(words) |-> words[i].start],
                          currentAudioTime', currentWordIndex')]_vars

C34_Witness ==
    /\ lastOp = "render"
    /\ Unsorted([i \in 1..Len(topics) |-> topics[i].timestamp])
    /\ activeTopicIndex > 0
    /\ topics[activeTopicIndex + 1].timestamp
          < topics[activeTopicIndex].timestamp

\* C32: a blob URL is created only by a run that succeeds and is the URL of
\* the results; at most one URL is alive in any state; the URL is revoked
\* when the user asks for a new file and when the session ends; after
\* handleNewFile results and audioFile are null, no URL is alive and the
\* stage is idle.
C32_BlobOwnership ==
    /\ [](Cardinality(liveUrls) <= 1)
    /\ [](~pageOpen => liveUrls = {})
    /\ [][/\ (liveUrls' \ liveUrls # {}) =>
               /\ stage = "summarizing"
               /\ toast' = "Success!"
               /\ results' # Null
               /\ liveUrls' \ liveUrls = {results'[1].audioUrl}
          /\ onNewFile =>
               /\ liveUrls' = {}
               /\ results' = Null
               /\ audioFile' = Null
               /\ stage' = "idle"]_vars

\* the stage that follows in the pipeline
nextStage ==
    [idle |-> "uploading", uploading |-> "transcribing",
     transcribing |-> "summarizing", summarizing |-> "idle"]

\* C36: the stage moves idle -> uploading -> transcribing -> summarizing ->
\* idle: a run starts from idle with a valid file, each stage is entered only
\* from the one before it, and the only other move is back to idle.  The
\* summarize service is invoked only when the transcribe service has
\* returned a non-empty text, and results are set only by the step that
\* receives a non-empty summary, after both services were invoked in order.
C36_PipelineOrder ==
    [][/\ stage' # stage =>
            /\ stage' \in {nextStage[stage], "idle"}
            /\ stage = "idle" => validateFile(audioFile'[1])
       /\ (calls' # calls /\ calls' # <<>>) =>
            /\ Len(calls') = Len(calls) + 1
            /\ calls' = SubSeq(<<"transcribe-audio", "summarize-text">>,
                               1, Len(calls'))
            /\ Len(calls') = 2 =>
                  /\ stage = "transcribing"
                  /\ ~falsy(transcriptionData')
       /\ results' # results /\ results' # Null =>
            /\ stage = "summarizing"
            /\ stage' = "idle"
            /\ calls = <<"transcribe-audio", "summarize-text">>
            /\ ~falsy(results'[1].summary.text)
            /\ ~falsy(results'[1].transcription)]_vars

C36_Witness ==
    /\ lastOp = "summarize-text"
    /\ stage = "idle"
    /\ results # Null
    /\ ~falsy(results[1].summary.text)

\* a step in which the read or a service call fails
PipelineFailure ==
    \/ readerOnerror
    \/ \E reply \in TranscribeReplies :
          (reply.error \/ falsy(reply.text)) /\ transcribeReturns(reply)
    \/ \E reply \in SummarizeReplies :
          (reply.error \/ falsy(reply.summary.text))
             /\ summarizeReturns(reply)

\* C37: when the file read fails, or a service call errors or returns no
\* text / no summary, the stage returns to idle, results stay null and no
\* blob URL is created; and while the page is open a processing stage is
\* always followed by idle, given that the read and every call return.
C37_FailureHandling ==
    /\ [][PipelineFailure =>
            /\ stage' = "idle"
            /\ results = Null
            /\ results' = Null
            /\ liveUrls' = liveUrls
            /\ liveUrls' = {}]_vars
    /\ (stage # "idle") ~> (stage = "idle" \/ ~pageOpen)

C37_Witness ==
    /\ lastOp = "summarize-text"
    /\ toast = "Processing failed"
    /\ stage = "idle"
    /\ results = Null
    /\ liveUrls = {}

\* larger than 10 MB, or neither the MIME type nor the extension is allowed
Rejected(file) ==
    \/ file.size > 10 * 1024 * 1024
    \/ /\ \A type \in validTypes : ~includes(file.type, type)
       /\ \A ext \in validExtensions :
             ~endsWith(toLowerCase(file.name), ext)

\* C38: a file that is too large, or whose MIME type and extension both fail
\* the lists, is rejected before any processing: stage, results and audioFile
\* stay as they are and no service is invoked; every other file offered to
\* the drop zone starts processing.
C38_FileValidation ==
    [][\A file \in Files :
         handleFileSelect(file) =>
            IF Rejected(file)
            THEN /\ UNCHANGED <<stage, results, audioFile, calls, liveUrls>>
                 /\ stage' = "idle"
                 /\ toast' \in {"File too large", "Invalid file type"}
            ELSE /\ stage' = "uploading"
                 /\ audioFile' = Some(file)
                 /\ calls' = <<>>]_vars

C38_Witness ==
    /\ lastOp = "handleFileSelect"
    /\ toast = "Invalid file type"
    /\ stage = "idle"
    /\ audioFile = Null
    /\ calls = <<>>

\* the views of Index that are rendered
RenderedViews ==
    {view \in {"DropZone", "ProcessingState", "ResultsDisplay"} :
       CASE view = "DropZone" -> DropZoneRendered
         [] view = "ProcessingState" -> ProcessingStateRendered
         [] view = "ResultsDisplay" -> ResultsDisplayRendered}

\* C39: while the page is open exactly one of the drop zone, the processing
\* indicator and the results view is rendered: the drop zone iff the stage
\* is idle and results are null, the indicator iff the stage is not idle and
\* results are null, the results view iff results are set; and a file is
\* selected only while the stage is idle and results are null.
C39_ViewExclusivity ==
    /\ [](pageOpen =>
            /\ Cardinality(RenderedViews) = 1
            /\ ("DropZone" \in RenderedViews)
                  <=> (stage = "idle" /\ results = Null)
            /\ ("ProcessingState" \in RenderedViews)
                  <=> (stage # "idle" /\ results = Null)
            /\ ("ResultsDisplay" \in RenderedViews) <=> (results # Null))
    /\ [][(\E file \in Files : handleFileSelect(file)) =>
            (stage = "idle" /\ results = Null)]_vars

C39_Witness ==
    /\ stage = "transcribing"
    /\ RenderedViews = {"ProcessingState"}
    /\ ~ENABLED (\E file \in Files : handleFileSelect(file))

\* C35: while the audio duration is unknown every parsed topic is passed to
\* the player; once a duration D > 0 was reported exactly the parsed topics
\* with timestamp < D are passed, in their order, so every topic the player
\* holds lies before the duration; and the player's handlers run only while
\* an audio URL exists and at least one topic passes.
C35_TopicFilter ==
    /\ [](LET parsed == results[1].summary.topics
          IN  /\ duration = 0 => topics = parsed
              /\ duration > 0 =>
                    /\ topics = SelectSeq(parsed, LAMBDA topic :
                                             topic.timestamp < duration)
                    /\ \A i \in 1..Len(topics) :
                          topics[i].timestamp < duration)
    /\ [][/\ results # Null
          /\ results[1].audioUrl \in liveUrls
          /\ Len(topics) > 0]_vars

C35_Witness ==
    /\ lastOp = "handleLoadedMetadata"
    /\ duration > 0
    /\ Len(topics) > 0
    /\ Len(topics) < Len(results[1].summary.topics)
    /\ \E i \in 1..Len(results[1].summary.topics) :
          results[1].summary.topics[i].timestamp = duration

\* handlers registered for the same event type on the same target
Duplicated ==
    \E l1, l2 \in listeners :
       l1 # l2 /\ l1.target = l2.target /\ l1.type = l2.type

\* C33: at most one handler per event type is registered on the media
\* element and on window; what is registered is exactly what the effects in
\* force acquired (the media and keydown handlers while mounted, the drag
\* handlers while dragging), through every re-subscription; after the
\* unmount no handler is left.
C33_ScopedSubscription ==
    /\ ~Duplicated
    /\ listeners =
          UNION {handlers(effect, Acquired[effect], cleanups[effect]) :
                 effect \in {e \in Effects : cleanups[e] # NoRun}}
    /\ IF PlayerMounted
       THEN {e \in Effects : cleanups[e] # NoRun}
              = {"media", "keydown"}
                  \cup (IF isDragging THEN {"drag"} ELSE {})
       ELSE listeners = {}

C33_Witness ==
    /\ lastOp = "handleLoadedMetadata"
    /\ isDragging
    /\ ~PlayerMounted
    /\ listeners = {}

====
